---- MODULE Spec2Model ----
(***************************************************************************)
(* Citation localization engine of find_reuse: the text matchers of        *)
(* citation_context.py and classify_usage.py as operators over strings,    *)
(* and the calls of them as actions.                                       *)
(*                                                                         *)
(* A text is a TLA+ string; offsets are 0-based as in the source, so the   *)
(* character at offset p is SubSeq(s, p+1, p+1) and the slice s[a:b] is    *)
(* Slice(s, a, b).  Characters outside ASCII are written with stand-ins    *)
(* that occur nowhere else: EnDash, OmegaUpper, OmegaLower, Degree,        *)
(* UUmlaut.                                                                *)
(***************************************************************************)
EXTENDS Integers, Sequences, FiniteSets, TLC

VARIABLES text, op, arg, out

vars == <<text, op, arg, out>>

-----------------------------------------------------------------------------
(* Characters and slices                                                   *)

EnDash == "~"
OmegaUpper == "^"
OmegaLower == "$"
UUmlaut == "@"
Degree == "|"

LowerSeq == <<"a","b","c","d","e","f","g","h","i","j","k","l","m",
              "n","o","p","q","r","s","t","u","v","w","x","y","z">>
UpperSeq == <<"A","B","C","D","E","F","G","H","I","J","K","L","M",
              "N","O","P","Q","R","S","T","U","V","W","X","Y","Z">>
DigitSeq == <<"0","1","2","3","4","5","6","7","8","9">>

Lowers == {LowerSeq[i] : i \in 1..26}
Uppers == {UpperSeq[i] : i \in 1..26}
Letters == Lowers \cup Uppers
Digits == {DigitSeq[i] : i \in 1..10}
Spaces == {" ", "\n", "\t", "\r", "\f"}
WordChars == Letters \cup Digits \cup {"_"}

Min(a, b) == IF a < b THEN a ELSE b
Max(a, b) == IF a > b THEN a ELSE b

\* s[p] for a 0-based offset p; the empty string outside s.
At(s, p) == IF p >= 0 /\ p < Len(s) THEN SubSeq(s, p + 1, p + 1) ELSE ""

\* s[a:b] with the clamping of slices, for non-negative bounds.
Slice(s, a, b) ==
    LET lo == Max(0, a)
        hi == Min(Len(s), b)
    IN  IF lo >= hi THEN "" ELSE SubSeq(s, lo + 1, hi)

\* str.lower() / str.upper() on one character.
LowerCh(c) ==
    IF c \in Uppers THEN LowerSeq[CHOOSE i \in 1..26 : UpperSeq[i] = c]
    ELSE IF c = OmegaUpper THEN OmegaLower ELSE c
UpperCh(c) ==
    IF c \in Lowers THEN UpperSeq[CHOOSE i \in 1..26 : LowerSeq[i] = c]
    ELSE IF c = OmegaLower THEN OmegaUpper ELSE c

RECURSIVE LowerStr(_)
LowerStr(s) ==
    IF Len(s) <= 1 THEN LowerCh(s)
    ELSE LowerStr(Slice(s, 0, Len(s) \div 2))
         \o LowerStr(Slice(s, Len(s) \div 2, Len(s)))

\* int(d) for one digit character, and int(s) for a digit string.
DigitVal(c) == (CHOOSE i \in 1..10 : DigitSeq[i] = c) - 1

RECURSIVE ToInt(_)
ToInt(s) ==
    IF s = "" THEN 0
    ELSE 10 * ToInt(Slice(s, 0, Len(s) - 1)) + DigitVal(At(s, Len(s) - 1))

\* str(n) for n >= 0.
RECURSIVE ToStr(_)
ToStr(n) ==
    IF n < 10 THEN DigitSeq[n + 1]
    ELSE ToStr(n \div 10) \o DigitSeq[(n % 10) + 1]

\* str.find(sub, from) and str.rfind(sub): offset of the first / last
\* occurrence, -1 when there is none.
Occurs(s, sub, p) == Slice(s, p, p + Len(sub)) = sub
StrFind(s, sub) ==
    LET ps == {p \in 0..(Len(s) - Len(sub)) : Occurs(s, sub, p)}
    IN  IF ps = {} THEN -1 ELSE CHOOSE p \in ps : \A q \in ps : p <= q
StrRFind(s, sub) ==
    LET ps == {p \in 0..(Len(s) - Len(sub)) : Occurs(s, sub, p)}
    IN  IF ps = {} THEN -1 ELSE CHOOSE p \in ps : \A q \in ps : p >= q
Contains(s, sub) == StrFind(s, sub) # -1

-----------------------------------------------------------------------------
(* Regular expressions of the re module, as far as the source uses them:   *)
(* a backtracking matcher that lists the ends of the matches starting at   *)
(* an offset in the order re tries them; the first is the match re finds.  *)

NoCaps == <<<<-1, -1>>, <<-1, -1>>>>

Set(S) == [t |-> "set", s |-> S]
NotSet(S) == [t |-> "nset", s |-> S]
Cat(rs) == [t |-> "cat", a |-> rs]
Alt(rs) == [t |-> "alt", a |-> rs]
Rep(r, lo, hi) == [t |-> "rep", r |-> r, lo |-> lo, hi |-> hi]
\* hi = -1 stands for no upper limit.
Star(r) == Rep(r, 0, -1)
Plus(r) == Rep(r, 1, -1)
Opt(r) == Rep(r, 0, 1)
Grp(k, r) == [t |-> "grp", k |-> k, r |-> r]
NotAhead(r) == [t |-> "nla", r |-> r]
Bol == [t |-> "bol"]
Eol == [t |-> "eol"]
WordB == [t |-> "wb"]

\* A literal character, and one under re.IGNORECASE.
Chr(c) == Set({c})
ChrI(c) == Set({LowerCh(c), UpperCh(c)})
SetI(S) == Set({LowerCh(c) : c \in S} \cup {UpperCh(c) : c \in S})

\* re.escape(str) as a pattern: the characters of str, one after another.
Lit(str) == Cat([i \in 1..Len(str) |-> Chr(At(str, i - 1))])
LitI(str) == Cat([i \in 1..Len(str) |-> ChrI(At(str, i - 1))])

Digit == Set(Digits)
Space == Set(Spaces)
Letter == Set(Letters)

\* \b at offset p: exactly one of the two neighbours is a word character.
AtWordB(s, p) == (At(s, p - 1) \in WordChars) # (At(s, p) \in WordChars)

\* $ without re.MULTILINE: the end, or just before a newline that ends s.
AtEol(s, p) == p = Len(s) \/ (p = Len(s) - 1 /\ At(s, p) = "\n")

RECURSIVE M(_, _, _, _), MCat(_, _, _, _, _), MAlt(_, _, _, _, _),
          MRep(_, _, _, _, _), MThen(_, _, _, _, _), MMore(_, _, _, _, _)

\* The matches of re at offset p of s, each <<end, captures>>.
M(s, re, p, caps) ==
    CASE re.t = "set"  -> IF At(s, p) # "" /\ At(s, p) \in re.s
                          THEN <<<<p + 1, caps>>>> ELSE <<>>
      [] re.t = "nset" -> IF At(s, p) # "" /\ At(s, p) \notin re.s
                          THEN <<<<p + 1, caps>>>> ELSE <<>>
      [] re.t = "cat"  -> MCat(s, re.a, 1, p, caps)
      [] re.t = "alt"  -> MAlt(s, re.a, 1, p, caps)
      [] re.t = "rep"  -> MRep(s, re, 0, p, caps)
      [] re.t = "grp"  -> LET rs == M(s, re.r, p, caps)
                          IN  [i \in 1..Len(rs) |->
                                 <<rs[i][1],
                                   [rs[i][2] EXCEPT ![re.k] = <<p, rs[i][1]>>]>>]
      [] re.t = "nla"  -> IF M(s, re.r, p, caps) = <<>>
                          THEN <<<<p, caps>>>> ELSE <<>>
      [] re.t = "bol"  -> IF p = 0 THEN <<<<p, caps>>>> ELSE <<>>
      [] re.t = "eol"  -> IF AtEol(s, p) THEN <<<<p, caps>>>> ELSE <<>>
      [] re.t = "wb"   -> IF AtWordB(s, p) THEN <<<<p, caps>>>> ELSE <<>>

\* rs[k], rs[k+1], ... in sequence from offset p.
MCat(s, rs, k, p, caps) ==
    IF k > Len(rs) THEN <<<<p, caps>>>>
    ELSE MThen(s, M(s, rs[k], p, caps), 1, rs, k + 1)

\* For each match of the head in turn, the matches of the rest rs[k..].
MThen(s, heads, i, rs, k) ==
    IF i > Len(heads) THEN <<>>
    ELSE MCat(s, rs, k, heads[i][1], heads[i][2]) \o MThen(s, heads, i + 1, rs, k)

\* The alternatives rs[k], rs[k+1], ... in the order written.
MAlt(s, rs, k, p, caps) ==
    IF k > Len(rs) THEN <<>>
    ELSE M(s, rs[k], p, caps) \o MAlt(s, rs, k + 1, p, caps)

\* Greedy repetition: n iterations made so far; one more first, then stop.
MRep(s, re, n, p, caps) ==
    (IF re.hi < 0 \/ n < re.hi THEN MMore(s, M(s, re.r, p, caps), 1, re, n + 1) ELSE <<>>)
    \o (IF n >= re.lo THEN <<<<p, caps>>>> ELSE <<>>)

\* For each match of one iteration in turn, the further iterations.
MMore(s, heads, i, re, n) ==
    IF i > Len(heads) THEN <<>>
    ELSE MRep(s, re, n, heads[i][1], heads[i][2]) \o MMore(s, heads, i + 1, re, n)

\* re.finditer(re, s) from offset p on: the leftmost match, then the next
\* one from its end on.  cands are the offsets at which re matches at all.
\* No pattern of the source matches the empty string.
RECURSIVE FindIterFrom(_, _, _, _)
FindIterFrom(s, re, cands, p) ==
    LET later == {q \in cands : q >= p}
    IN  IF later = {} THEN <<>>
        ELSE LET q == CHOOSE x \in later : \A y \in later : x <= y
                 rs == M(s, re, q, NoCaps)
             IN  <<[start |-> q, end |-> rs[1][1], caps |-> rs[1][2]]>>
                 \o FindIterFrom(s, re, cands,
                                 IF rs[1][1] > q THEN rs[1][1] ELSE q + 1)

FindIter(s, re) ==
    FindIterFrom(s, re, {q \in 0..Len(s) : M(s, re, q, NoCaps) # <<>>}, 0)

\* re.search(re, s) is not None; re.match(re, s) is not None.
Search(s, re) == \E p \in 0..Len(s) : M(s, re, p, NoCaps) # <<>>
MatchAt0(s, re) == M(s, re, 0, NoCaps) # <<>>

\* m.group(k) of a match m of s.
Group(s, m, k) == Slice(s, m.caps[k][1], m.caps[k][2])

\* The start offsets of a list of matches.
Starts(ms) == [i \in 1..Len(ms) |-> ms[i].start]

\* The elements of a sequence, as a set.
Range(f) == {f[i] : i \in 1..Len(f)}

\* str.split(',') of a string, as a sequence of strings.
RECURSIVE SplitComma(_)
SplitComma(s) ==
    LET c == StrFind(s, ",")
    IN  IF c = -1 THEN <<s>>
        ELSE <<Slice(s, 0, c)>> \o SplitComma(Slice(s, c + 1, Len(s)))

-----------------------------------------------------------------------------
(* citation_context.find_numbered_citations                                *)

Dash == Set({EnDash, "-"})
SepDash == Set({",", EnDash, "-"})
Digits13 == Rep(Digit, 1, 3)

\* \[([^\]]*)\]
bracket_pattern == Cat(<<Chr("["), Grp(1, Star(NotSet({"]"}))), Chr("]")>>)

\* \((\d{1,3}(?:\s*[,\u2013-]\s*\d{1,3})*)\)
paren_cite_pattern ==
    Cat(<<Chr("("),
          Grp(1, Cat(<<Digits13,
                       Star(Cat(<<Star(Space), SepDash, Star(Space), Digits13>>))>>)),
          Chr(")")>>)

\* (\d+)\s*[-\u2013]\s*(\d+)
inner_range_pattern ==
    Cat(<<Grp(1, Plus(Digit)), Star(Space), Dash, Star(Space), Grp(2, Plus(Digit))>>)

\* \b{ref_str}\b
WholeNumber(ref_str) == Cat(<<WordB, Lit(ref_str), WordB>>)

\* (?:\s*[,\u2013-]\s*\d+)*
TrailingList == Star(Cat(<<Star(Space), SepDash, Star(Space), Plus(Digit)>>))

\* (?:\s|$|[,.])
Boundary == Alt(<<Space, Eol, Set({",", "."})>>)

\* [a-zA-Z]({ref_str})(?:[,\s]|$)
super_pattern(ref_str) ==
    Cat(<<Letter, Grp(1, Lit(ref_str)), Alt(<<Set({","} \cup Spaces), Eol>>)>>)

\* [a-zA-Z](\d{1,3}(?:,\d{1,3})+)
group_super_pattern ==
    Cat(<<Letter, Grp(1, Cat(<<Digits13, Plus(Cat(<<Chr(","), Digits13>>))>>))>>)

\* [a-zA-Z]\s+{ref_str}(?:\s*[,\u2013-]\s*\d+)*(?:\s|$|[,.])
space_super_pattern(ref_str) ==
    Cat(<<Letter, Plus(Space), Lit(ref_str), TrailingList, Boundary>>)

\* \)\s*{ref_str}(?:\s*[,\u2013-]\s*\d+)*(?:\s|$|[,.])
paren_super_pattern(ref_str) ==
    Cat(<<Chr(")"), Star(Space), Lit(ref_str), TrailingList, Boundary>>)

\* (\d{1,3})\s*[\u2013-]\s*(\d{1,3})
range_pattern ==
    Cat(<<Grp(1, Digits13), Star(Space), Dash, Star(Space), Grp(2, Digits13)>>)

\* The deny-list, each pattern under re.IGNORECASE.
KMG == Opt(SetI({"k", "M", "G"}))
skip_patterns ==
    <<Lit("10."),
      Lit("0000-"),
      Cat(<<Rep(Digit, 4, 4), Chr("-"), Rep(Digit, 4, 4)>>),
      Cat(<<KMG, ChrI("H"), ChrI("z")>>),
      Cat(<<KMG, ChrI(OmegaUpper)>>),
      Cat(<<Plus(Digit), Star(Space), KMG, SetI({OmegaUpper, OmegaLower})>>),
      Cat(<<Letter, Plus(Digit), ChrI("x"), Plus(Digit)>>),
      Cat(<<Chr("-"), Rep(Digit, 2, 4), Chr(".")>>)>>

\* \s*[kMG]?[Hz\u03a9\u03c9ms%\u00b0] under re.IGNORECASE
unit_after_pattern ==
    Cat(<<Star(Space), KMG,
          SetI({"H", "z", OmegaUpper, OmegaLower, "m", "s", "%", Degree})>>)

\* \d\s*$  and  [a-zA-Z]\s*$
digit_before_pattern == Cat(<<Digit, Star(Space), Eol>>)
letter_before_pattern == Cat(<<Letter, Star(Space), Eol>>)

\* True when some range a-b written in content has a <= n <= b.
InSomeRange(content, n) ==
    LET ms == FindIter(content, inner_range_pattern)
    IN  \E i \in 1..Len(ms) :
            /\ ToInt(Group(content, ms[i], 1)) <= n
            /\ n <= ToInt(Group(content, ms[i], 2))

\* The test both bracket loops apply to the content of a match.
ContentCites(content, ref_number) ==
    \/ Search(content, WholeNumber(ToStr(ref_number)))
    \/ /\ (Contains(content, "-") \/ Contains(content, EnDash))
       /\ InSomeRange(content, ref_number)

\* Pattern 1: [42] or [41,42] or [40-45]
BracketPositions(s, ref_number) ==
    LET ms == FindIter(s, bracket_pattern)
    IN  {ms[i].start : i \in {j \in 1..Len(ms) :
                                 ContentCites(Group(s, ms[j], 1), ref_number)}}

\* Pattern 1b: (42), (15, 16), (17-20)
ParenPositions(s, ref_number) ==
    LET ms == FindIter(s, paren_cite_pattern)
    IN  {ms[i].start : i \in {j \in 1..Len(ms) :
            /\ ~Search(Group(s, ms[j], 1), Cat(<<WordB, Rep(Digit, 4, 4), WordB>>))
            /\ ContentCites(Group(s, ms[j], 1), ref_number)}}

\* Pattern 2: number directly after a word
SuperPositions(s, ref_number) ==
    Range(Starts(FindIter(s, super_pattern(ToStr(ref_number)))))

\* Pattern 2b: comma-separated group directly after a word
GroupSuperPositions(s, ref_number) ==
    LET ms == FindIter(s, group_super_pattern)
    IN  {ms[i].start : i \in {j \in 1..Len(ms) :
            LET numbers == SplitComma(Group(s, ms[j], 1))
            IN  \E k \in 1..Len(numbers) : ToInt(numbers[k]) = ref_number}}

\* Pattern 3: word, whitespace, number; kept when the context window
\* text[start-5 : end+20] holds at least one 1-3 digit token.
SpaceSuperPositions(s, ref_number) ==
    LET ms == FindIter(s, space_super_pattern(ToStr(ref_number)))
    IN  {ms[i].start : i \in {j \in 1..Len(ms) :
            LET context == Slice(s, Max(0, ms[j].start - 5),
                                 Min(Len(s), ms[j].end + 20))
                numbers_nearby ==
                    Len(FindIter(context, Cat(<<WordB, Digits13, WordB>>)))
            IN  numbers_nearby >= 1}}

\* Pattern 5: number after a closing parenthesis
ParenSuperPositions(s, ref_number) ==
    Range(Starts(FindIter(s, paren_super_pattern(ToStr(ref_number)))))

\* Pattern 4: a dashed range holding the number, outside the deny-list
\* and after a letter.
RangeAccepted(s, m) ==
    LET before == Slice(s, Max(0, m.start - 30), m.start)
        after == Slice(s, m.end, Min(Len(s), m.end + 30))
        around == before \o Slice(s, m.start, m.end) \o after
        should_skip ==
            \/ \E k \in 1..Len(skip_patterns) : Search(around, skip_patterns[k])
            \/ MatchAt0(after, unit_after_pattern)
            \/ Search(before, digit_before_pattern)
    IN  ~should_skip /\ Search(before, letter_before_pattern)

RangePositions(s, ref_number) ==
    LET ms == FindIter(s, range_pattern)
    IN  {ms[i].start : i \in {j \in 1..Len(ms) :
            /\ ToInt(Group(s, ms[j], 1)) <= ref_number
            /\ ref_number <= ToInt(Group(s, ms[j], 2))
            /\ RangeAccepted(s, ms[j])}}

\* find_numbered_citations(text, ref_number): list(set(positions)).
FindNumberedCitations(s, ref_number) ==
    BracketPositions(s, ref_number) \cup ParenPositions(s, ref_number)
      \cup SuperPositions(s, ref_number) \cup GroupSuperPositions(s, ref_number)
      \cup SpaceSuperPositions(s, ref_number) \cup ParenSuperPositions(s, ref_number)
      \cup RangePositions(s, ref_number)

-----------------------------------------------------------------------------
(* citation_context.find_author_citations                                  *)

\* normalize_author_name: NFKD, then the combining marks dropped.
RECURSIVE normalize_author_name(_)
normalize_author_name(name) ==
    IF name = "" THEN ""
    ELSE (IF At(name, 0) = UUmlaut THEN "u" ELSE At(name, 0))
         \o normalize_author_name(Slice(name, 1, Len(name)))

\* Mutant of YearDeltas: the later years are forgotten.
RECURSIVE YearDeltasEarlierOnly(_, _, _)
YearDeltasEarlierOnly(year, delta, year_tolerance) ==
    IF delta > year_tolerance THEN <<>>
    ELSE <<ToStr(year - delta)>>
         \o YearDeltasEarlierOnly(year, delta + 1, year_tolerance)

\* years_to_search: the year, then year - delta and year + delta in turn.
RECURSIVE YearDeltas(_, _, _)
YearDeltas(year, delta, year_tolerance) ==
    IF delta > year_tolerance THEN <<>>
    ELSE <<ToStr(year - delta), ToStr(year + delta)>>
         \o YearDeltas(year, delta + 1, year_tolerance)

YearsToSearch(year, year_tolerance) ==
    <<ToStr(year)>> \o YearDeltas(year, 1, year_tolerance)

Sp0 == Star(Space)
Sp1 == Plus(Space)
\* [a-z]? under re.IGNORECASE
YearLetter == Opt(Letter)
\* (?:and|&)
AndJoin == Alt(<<LitI("and"), Chr("&")>>)
\* et\s+al\.?
EtAl == Cat(<<LitI("et"), Sp1, LitI("al"), Opt(Chr("."))>>)

\* The three shapes after an author part a: (a[,] Y), a (Y), a, Y.
YearShapes(a, y) ==
    <<Cat(<<Chr("("), a, Sp0, Opt(Chr(",")), Sp0, Lit(y), YearLetter, Chr(")")>>),
      Cat(<<a, Sp0, Chr("("), Lit(y), YearLetter, Chr(")")>>),
      Cat(<<a, Sp0, Chr(","), Sp0, Lit(y), YearLetter>>)>>

\* The spellings of the second author: raw, then normalized.
SecondSpellings(authors) == <<authors[2], normalize_author_name(authors[2])>>

TwoAuthors(author, second) == Cat(<<LitI(author), Sp1, AndJoin, Sp1, LitI(second)>>)

\* The patterns of one author spelling and one year.
YearPatterns(author, year_str, authors) ==
    (IF Len(authors) = 1 THEN YearShapes(LitI(author), year_str)
     ELSE IF Len(authors) = 2
          THEN YearShapes(TwoAuthors(author, SecondSpellings(authors)[1]), year_str)
               \o YearShapes(TwoAuthors(author, SecondSpellings(authors)[2]), year_str)
          ELSE <<>>)
    \o (IF Len(authors) >= 2
        THEN YearShapes(Cat(<<LitI(author), Sp1, EtAl>>), year_str)
             \o <<Cat(<<LitI(author), Sp1, EtAl, Sp1, Lit(year_str), YearLetter>>)>>
        ELSE <<>>)

\* \(\d+\)
ParenNumber == Cat(<<Chr("("), Plus(Digit), Chr(")")>>)

\* The year-independent patterns of one author spelling.
NumberedNamePatterns(author, authors) ==
    (IF Len(authors) = 1 THEN <<Cat(<<LitI(author), Sp0, ParenNumber>>)>>
     ELSE IF Len(authors) = 2
          THEN <<Cat(<<TwoAuthors(author, SecondSpellings(authors)[1]), Sp0, ParenNumber>>),
                 Cat(<<TwoAuthors(author, SecondSpellings(authors)[2]), Sp0, ParenNumber>>)>>
          ELSE <<>>)
    \o (IF Len(authors) >= 2
        THEN <<Cat(<<LitI(author), Sp1, EtAl, Sp0, ParenNumber>>)>>
        ELSE <<>>)

RECURSIVE PatternsOverYears(_, _, _, _)
PatternsOverYears(author, years, k, authors) ==
    IF k > Len(years) THEN <<>>
    ELSE YearPatterns(author, years[k], authors)
         \o PatternsOverYears(author, years, k + 1, authors)

\* author_patterns: the first author, and the normalized spelling if it differs.
AuthorSpellings(authors) ==
    IF normalize_author_name(authors[1]) # authors[1]
    THEN <<authors[1], normalize_author_name(authors[1])>>
    ELSE <<authors[1]>>

RECURSIVE AuthorPatterns(_, _, _, _)
AuthorPatterns(spellings, k, years, authors) ==
    IF k > Len(spellings) THEN <<>>
    ELSE PatternsOverYears(spellings[k], years, 1, authors)
         \o NumberedNamePatterns(spellings[k], authors)
         \o AuthorPatterns(spellings, k + 1, years, authors)

RECURSIVE SearchAll(_, _, _)
\* The start of every match of every pattern, in the order of the patterns.
SearchAll(s, patterns, k) ==
    IF k > Len(patterns) THEN <<>>
    ELSE Starts(FindIter(s, patterns[k])) \o SearchAll(s, patterns, k + 1)

\* find_author_citations(text, authors, year, year_tolerance)
FindAuthorCitations(s, authors, year, year_tolerance) ==
    IF authors = <<>> \/ year = 0 THEN <<>>
    ELSE SearchAll(s, AuthorPatterns(AuthorSpellings(authors), 1,
                                     YearsToSearch(year, year_tolerance), authors), 1)

-----------------------------------------------------------------------------
(* citation_context.extract_context, classify_usage.extract_word_context   *)

\* str.strip()
RECURSIVE LStrip(_), RStrip(_)
LStrip(s) == IF At(s, 0) \in Spaces THEN LStrip(Slice(s, 1, Len(s))) ELSE s
RStrip(s) ==
    IF At(s, Len(s) - 1) \in Spaces THEN RStrip(Slice(s, 0, Len(s) - 1)) ELSE s
Strip(s) == LStrip(RStrip(s))

\* The width of the region searched for a sentence end, and the value that
\* stands for no sentence end found.
SnapRegion == 100
NotFound == 9999

SentenceEnds == <<". ", ".\n", "? ", "! ">>

\* max(search_region.rfind(e) for the four sentence ends)
LastSentenceEnd(region) ==
    LET r == [i \in 1..4 |-> StrRFind(region, SentenceEnds[i])]
    IN  Max(Max(r[1], r[2]), Max(r[3], r[4]))

\* Mutant of FirstSentenceEnd: the farthest sentence end found is taken.
FarthestSentenceEnd(region) ==
    LET f == [i \in 1..4 |-> StrRFind(region, SentenceEnds[i])]
        m == Max(Max(f[1], f[2]), Max(f[3], f[4]))
    IN  IF m = -1 THEN NotFound ELSE m

\* min(search_region.find(e), or 9999 when there is none)
FirstSentenceEnd(region) ==
    LET f == [i \in 1..4 |->
                 IF StrFind(region, SentenceEnds[i]) # -1
                 THEN StrFind(region, SentenceEnds[i]) ELSE NotFound]
    IN  Min(Min(f[1], f[2]), Min(f[3], f[4]))

\* Mutant of SnapStart: the offset found in the region is added to the raw
\* start, not to the start of the region.
SnapStartFromRawStart(s, start) ==
    IF start > 0
    THEN LET sent_end == LastSentenceEnd(Slice(s, Max(0, start - SnapRegion), start))
         IN  IF sent_end # -1 THEN start + sent_end + 2 ELSE start
    ELSE start

\* The start snapped to just after the last sentence end before it.
SnapStart(s, start) ==
    IF start > 0
    THEN LET sent_end == LastSentenceEnd(Slice(s, Max(0, start - SnapRegion), start))
         IN  IF sent_end # -1 THEN Max(0, start - SnapRegion) + sent_end + 2
             ELSE start
    ELSE start

\* SnapEnd with the whole rest of the text as search region.
SnapEndAnywhere(s, end) ==
    IF end < Len(s)
    THEN LET sent_end == FirstSentenceEnd(Slice(s, end, Len(s)))
         IN  IF sent_end # NotFound THEN end + sent_end + 1 ELSE end
    ELSE end

\* The end snapped to just after the first sentence-ending mark after it.
SnapEnd(s, end) ==
    IF end < Len(s)
    THEN LET sent_end == FirstSentenceEnd(Slice(s, end, Min(Len(s), end + SnapRegion)))
         IN  IF sent_end # NotFound THEN end + sent_end + 1 ELSE end
    ELSE end

\* extract_context(text, position, context_chars)
ExtractContext(s, position, context_chars) ==
    LET start == SnapStart(s, Max(0, position - context_chars))
        end == SnapEnd(s, Min(Len(s), position + context_chars))
    IN  [context |-> Strip(Slice(s, start, end)),
         start |-> start,
         end |-> end,
         citation_position |-> position]

\* len(s.split()): the number of whitespace-delimited words.
WordCount(s) ==
    Cardinality({i \in 0..(Len(s) - 1) :
                    At(s, i) \notin Spaces /\ (i = 0 \/ At(s, i - 1) \in Spaces)})

\* The offsets i > 0 at which a word has just ended: s[i] is whitespace
\* and s[i-1] is not.
WordEnds(s) ==
    {i \in 1..(Len(s) - 1) : At(s, i) \in Spaces /\ At(s, i - 1) \notin Spaces}

\* The k-th of them from the left, or -1 when the loop runs out first.
KthWordEnd(s, k) ==
    LET hits == {i \in WordEnds(s) : Cardinality({j \in WordEnds(s) : j <= i}) = k}
    IN  IF hits = {} THEN -1 ELSE CHOOSE i \in hits : TRUE

\* extract_word_context(text, start, end, num_words)
ExtractWordContext(s, start, end, num_words) ==
    LET before_text == Slice(s, 0, start)
        after_text == Slice(s, end, Len(s))
        words_to_skip == WordCount(before_text) - num_words
        context_start ==
            IF WordCount(before_text) > num_words
            THEN (IF KthWordEnd(before_text, words_to_skip) # -1
                  THEN KthWordEnd(before_text, words_to_skip) + 1 ELSE 0)
            ELSE 0
        context_end ==
            IF WordCount(after_text) > num_words
            THEN end + (IF KthWordEnd(after_text, num_words) # -1
                        THEN KthWordEnd(after_text, num_words)
                        ELSE Len(after_text))
            ELSE Len(s)
    IN  [context |-> Strip(Slice(s, context_start, context_end)),
         context_start |-> context_start,
         context_end |-> context_end]

-----------------------------------------------------------------------------
(* classify_usage.find_dandi_mentions_with_positions                       *)

\* (\d{6})
SixDigits == Grp(1, Rep(Digit, 6, 6))

\* ARCHIVE_PATTERNS['DANDI Archive'], each searched under re.IGNORECASE.
DandiPatterns ==
    <<[type |-> "doi",
       re |-> Cat(<<LitI("10.48324/dandi."), SixDigits,
                    Opt(Cat(<<Chr("/"), Plus(Set(Digits \cup {"."}))>>))>>)],
      [type |-> "url",
       re |-> Cat(<<LitI("dandiarchive.org/dandiset/"), SixDigits>>)],
      [type |-> "gui_url",
       re |-> Cat(<<LitI("gui.dandiarchive.org/#/dandiset/"), SixDigits>>)],
      [type |-> "text_colon",
       re |-> Cat(<<LitI("DANDI:"), Sp0, SixDigits>>)],
      [type |-> "text_space",
       re |-> Cat(<<LitI("DANDI"), Sp1, SixDigits>>)],
      [type |-> "dandiset_text",
       re |-> Cat(<<LitI("dandiset"), Sp1, SixDigits>>)],
      [type |-> "dandiset_path",
       re |-> Cat(<<LitI("dandiset/"), SixDigits>>)],
      [type |-> "identifier",
       re |-> Cat(<<LitI("DANDI"), Opt(Cat(<<Sp1, LitI("archive")>>)),
                    Opt(Cat(<<Sp1, LitI("identifier")>>)),
                    Plus(Set({",", ":"} \cup Spaces)), SixDigits>>)],
      [type |-> "id_format",
       re |-> Cat(<<Alt(<<LitI("dandiarchive.org"), LitI("DANDI")>>),
                    Plus(Set({","} \cup Spaces)), LitI("ID"),
                    Star(Set({":"} \cup Spaces)), SixDigits>>)],
      [type |-> "id_hash_format",
       re |-> Cat(<<LitI("DANDI"), Sp1, LitI("ID#"),
                    Plus(Set({":"} \cup Spaces)), SixDigits>>)],
      [type |-> "archive_id",
       re |-> Cat(<<LitI("DANDI"), Sp1, LitI("Archive"), Sp1, LitI("ID"),
                    Plus(Set({":"} \cup Spaces)), SixDigits>>)],
      [type |-> "dataset_ids_paren",
       re |-> Cat(<<LitI("DANDI"), Sp0, Chr("("), LitI("dataset"), Sp1, LitI("ID"),
                    Opt(ChrI("s")), Opt(Chr(":")), Sp0, SixDigits>>)],
      [type |-> "dataset_ids_paren_and",
       re |-> Cat(<<LitI("DANDI"), Sp0, Chr("("), Star(NotSet({")"})), WordB,
                    LitI("and"), Sp1, SixDigits, Chr(")")>>)]>>

\* The matches of one pattern in a mention, offsets from its start.
\* matched_strings = <<>> stands for a dict without that key.
PieceMatches(piece, pattern) ==
    LET ms == FindIter(piece, pattern.re)
    IN  [i \in 1..Len(ms) |->
            [id |-> Group(piece, ms[i], 1),
             pattern_type |-> pattern.type,
             matched_string |-> Slice(piece, ms[i].start, ms[i].end),
             start |-> ms[i].start,
             end |-> ms[i].end,
             matched_strings |-> <<>>]]

\* The ways a dataset is mentioned in the texts below.
MentionForms ==
    {"DANDI:000001",
     "dandiarchive.org/dandiset/000001",
     "DANDI 000002",
     "DANDI (dataset IDs: 000001 and 000002)"}

\* The matches of every pattern in every one of them.
FormMatches ==
    [f \in MentionForms |->
        [k \in 1..Len(DandiPatterns) |-> PieceMatches(f, DandiPatterns[k])]]

Shifted(ms, offset) ==
    [i \in 1..Len(ms) |->
        [ms[i] EXCEPT !.start = @ + offset, !.end = @ + offset]]

\* The matches list before deduplication, pattern by pattern, for a text
\* that is a row of mentions, each after a filler of gap characters; no
\* pattern matches in a filler or across one.
RECURSIVE MatchesInMentions(_, _, _, _)
MatchesInMentions(mentions, k, offset, n) ==
    IF k > Len(mentions) THEN <<>>
    ELSE Shifted(FormMatches[mentions[k].form][n], offset + mentions[k].gap)
         \o MatchesInMentions(mentions, k + 1,
                              offset + mentions[k].gap + Len(mentions[k].form), n)

RECURSIVE MatchesOfPatterns(_, _)
MatchesOfPatterns(mentions, k) ==
    IF k > Len(DandiPatterns) THEN <<>>
    ELSE MatchesInMentions(mentions, 1, 0, k)
         \o MatchesOfPatterns(mentions, k + 1)

RawMatches(mentions) == MatchesOfPatterns(mentions, 1)

PROXIMITY_THRESHOLD == 200

\* Comparison of dataset ids, strings of six digits.
IdLess(a, b) == ToInt(a) < ToInt(b)

\* key (id, start, -(end - start)) of the first sort.
KeyLess(a, b) ==
    \/ IdLess(a.id, b.id)
    \/ /\ a.id = b.id
       /\ \/ a.start < b.start
          \/ a.start = b.start /\ (a.end - a.start) > (b.end - b.start)

\* key start of the last sort.
StartLess(a, b) == a.start < b.start

\* a sorts before b under the key named.
Before(key, a, b) ==
    IF key = "start" THEN StartLess(a, b)
    ELSE IF key = "citation_position"
         THEN a.citation_position < b.citation_position
         ELSE KeyLess(a, b)

\* list.sort(key): stable, so an element goes after the elements that do
\* not come after it.
RECURSIVE InsertSorted(_, _, _), SortedBy(_, _)
InsertSorted(sorted, x, key) ==
    IF sorted = <<>> THEN <<x>>
    ELSE IF Before(key, x, Head(sorted)) THEN <<x>> \o sorted
         ELSE <<Head(sorted)>> \o InsertSorted(Tail(sorted), x, key)

SortedBy(list, key) ==
    IF list = <<>> THEN <<>>
    ELSE InsertSorted(SortedBy(SubSeq(list, 1, Len(list) - 1), key),
                      list[Len(list)], key)

\* The test of the merge loop for overlapping ranges only.
CloseToOverlapping(existing, match) ==
    /\ existing.id = match.id
    /\ ~(match.end < existing.start \/ match.start > existing.end)

\* The test of the merge loop: same id, and the ranges overlap or lie
\* within the threshold of each other.
CloseTo(existing, match) ==
    /\ existing.id = match.id
    /\ ~(\/ match.end < existing.start - PROXIMITY_THRESHOLD
         \/ match.start > existing.end + PROXIMITY_THRESHOLD)

\* Mutant of MergedInto: the end of the existing entry is left as it is.
MergedIntoKeepingEnd(existing, match) ==
    LET strings == IF existing.matched_strings = <<>>
                   THEN <<existing.matched_string>>
                   ELSE existing.matched_strings
    IN  [existing EXCEPT
            !.start = Min(existing.start, match.start),
            !.matched_strings =
                IF match.matched_string \in Range(strings) THEN strings
                ELSE Append(strings, match.matched_string)]

\* The existing entry after match is merged into it.
MergedInto(existing, match) ==
    LET strings == IF existing.matched_strings = <<>>
                   THEN <<existing.matched_string>>
                   ELSE existing.matched_strings
    IN  [existing EXCEPT
            !.start = Min(existing.start, match.start),
            !.end = Max(existing.end, match.end),
            !.matched_strings =
                IF match.matched_string \in Range(strings) THEN strings
                ELSE Append(strings, match.matched_string)]

\* One round of the outer loop: match is merged into the first entry of
\* deduped it is close to, or appended.
AddMatch(deduped, match) ==
    LET close == {i \in 1..Len(deduped) : CloseTo(deduped[i], match)}
    IN  IF close = {} THEN Append(deduped, match)
        ELSE LET first == CHOOSE i \in close : \A j \in close : i <= j
             IN  [deduped EXCEPT ![first] = MergedInto(deduped[first], match)]

RECURSIVE Deduped(_, _)
Deduped(matches, n) ==
    IF n = 0 THEN <<>> ELSE AddMatch(Deduped(matches, n - 1), matches[n])

\* Mutant of DedupedMentions: the entries are left in the order of the
\* merge loop, without the last sort.
DedupedInMergeOrder(matches) ==
    LET sorted == SortedBy(matches, "id_start_length")
    IN  Deduped(sorted, Len(sorted))

\* find_dandi_mentions_with_positions, from the matches list on.
DedupedMentions(matches) ==
    LET sorted == SortedBy(matches, "id_start_length")
    IN  SortedBy(Deduped(sorted, Len(sorted)), "start")

-----------------------------------------------------------------------------
(* citation_context.find_reference_number_for_doi and what it calls        *)

\* The value that stands for None where the source returns Optional[int].
None == -1

\* 10\.\d{4}/
doi_prefix_pattern == Cat(<<Lit("10."), Rep(Digit, 4, 4), Chr("/")>>)

\* 10\.\d{4,}/[^\s]+
ref_doi_pattern ==
    Cat(<<Lit("10."), Rep(Digit, 4, -1), Chr("/"), Plus(NotSet(Spaces))>>)

\* (?:^|\n)\s*(\d{1,3})(?:\.(?!\d)|[\s\)])(?![\d/])
ref_pattern ==
    Cat(<<Alt(<<Bol, Chr("\n")>>), Star(Space), Grp(1, Rep(Digit, 1, 3)),
          Alt(<<Cat(<<Chr("."), NotAhead(Digit)>>), Set(Spaces \cup {")"})>>),
          NotAhead(Set(Digits \cup {"/"}))>>)

\* \d{4}/
doi_tail_pattern == Cat(<<Rep(Digit, 4, 4), Chr("/")>>)

\* Body of a value that is computed once.
Bind(value, Body(_)) == CHOOSE r \in {Body(v) : v \in {value}} : TRUE

\* find_reference_section_start without the test that the density goes on.
FindReferenceSectionStartOfDense(s) ==
    Bind(Starts(FindIter(s, doi_prefix_pattern)), LAMBDA doi_positions :
    LET n == Len(doi_positions)
        dense == {i \in 0..(n - 4) :
                     doi_positions[i + 4] - doi_positions[i + 1] < 1000}
    IN  IF n < 4 \/ dense = {} THEN Len(s)
        ELSE doi_positions[(CHOOSE i \in dense : \A j \in dense : i <= j) + 1])

\* find_reference_section_start(text): the first of four DOIs within 1000
\* characters whose density goes on, or len(text).
FindReferenceSectionStart(s) ==
    Bind(Starts(FindIter(s, doi_prefix_pattern)), LAMBDA doi_positions :
    LET n == Len(doi_positions)
        dense == {i \in 0..(n - 4) :
                     /\ doi_positions[i + 4] - doi_positions[i + 1] < 1000
                     /\ (i + 10 < n) =>
                            doi_positions[i + 11] - doi_positions[i + 1] < 5000}
    IN  IF n < 4 \/ dense = {} THEN Len(s)
        ELSE doi_positions[(CHOOSE i \in dense : \A j \in dense : i <= j) + 1])

\* The offset of the first occurrence of the DOI, any case, or None.
DoiPosition(s, doi) ==
    LET found == {p \in 0..Len(s) : M(s, LitI(doi), p, NoCaps) # <<>>}
    IN  IF found = {} THEN None
        ELSE CHOOSE p \in found : \A q \in found : p <= q

\* The numbers of the numbered lines of preceding_text, a 10 that opens a
\* DOI left out.
ValidRefs(preceding_text) ==
    LET ref_numbers == FindIter(preceding_text, ref_pattern)
        Remaining(m) == IF m.end < Len(preceding_text)
                        THEN Slice(preceding_text, m.end, m.end + 20)
                        ELSE ""
        Kept(m) == ~(/\ ToInt(Group(preceding_text, m, 1)) = 10
                     /\ MatchAt0(Remaining(m), doi_tail_pattern))
        kept == SelectSeq(ref_numbers, Kept)
    IN  [i \in 1..Len(kept) |-> ToInt(Group(preceding_text, kept[i], 1))]

\* The count of the DOI among the DOIs from the start of the references on.
PositionalNumber(s, doi) ==
    Bind(FindReferenceSectionStart(s), LAMBDA ref_start :
    Bind(Slice(s, ref_start, Len(s)), LAMBDA ref_section :
    Bind(FindIter(ref_section, ref_doi_pattern), LAMBDA ref_dois :
    LET hits == {i \in 1..Len(ref_dois) :
                    Contains(LowerStr(Slice(ref_section, ref_dois[i].start,
                                            ref_dois[i].end)),
                             LowerStr(doi))}
    IN  IF ref_start < Len(s) /\ hits # {}
        THEN CHOOSE i \in hits : \A j \in hits : i <= j
        ELSE None)))

\* find_reference_number_for_doi from doi_pos on, taking the first number
\* of a numbered line.
ReferenceNumberAtFirst(s, doi, doi_pos) ==
    LET valid_refs == ValidRefs(Slice(s, Max(0, doi_pos - 500), doi_pos))
    IN  IF valid_refs # <<>> THEN valid_refs[1]
        ELSE PositionalNumber(s, doi)

\* find_reference_number_for_doi from doi_pos on: the last number of a
\* numbered line in the 500 characters before the DOI, else the count.
ReferenceNumberAt(s, doi, doi_pos) ==
    LET valid_refs == ValidRefs(Slice(s, Max(0, doi_pos - 500), doi_pos))
    IN  IF valid_refs # <<>> THEN valid_refs[Len(valid_refs)]
        ELSE PositionalNumber(s, doi)

\* Mutant of FindReferenceNumberForDoi: a text without the DOI is searched
\* as if the DOI followed it.
FindReferenceNumberAnyway(s, doi) ==
    LET doi_pos == DoiPosition(s, doi)
    IN  ReferenceNumberAt(s, doi, IF doi_pos = None THEN Len(s) ELSE doi_pos)

\* find_reference_number_for_doi(text, doi)
FindReferenceNumberForDoi(s, doi) ==
    LET doi_pos == DoiPosition(s, doi)
    IN  IF doi_pos = None THEN None
        ELSE ReferenceNumberAt(s, doi, doi_pos)

-----------------------------------------------------------------------------
(* citation_context.find_title_mentions, is_in_reference_section and       *)
(* find_citation_contexts                                                  *)

stop_words == {"the", "a", "an", "of", "in", "on", "for", "and", "or", "to", "with"}

\* str.split(): the whitespace-delimited words of a string.
RECURSIVE SplitWords(_, _)
SplitWords(s, word) ==
    IF s = "" THEN (IF word = "" THEN <<>> ELSE <<word>>)
    ELSE IF At(s, 0) \in Spaces
         THEN (IF word = "" THEN <<>> ELSE <<word>>)
              \o SplitWords(Slice(s, 1, Len(s)), "")
         ELSE SplitWords(Slice(s, 1, Len(s)), word \o At(s, 0))

\* " ".join(words)
RECURSIVE JoinWords(_)
JoinWords(words) ==
    IF words = <<>> THEN ""
    ELSE IF Len(words) = 1 THEN words[1]
         ELSE words[1] \o " " \o JoinWords(Tail(words))

NotStopWord(w) == LowerStr(w) \notin stop_words

\* find_title_mentions searching for all the words joined.
FindTitleMentionsOfAllWords(s, title) ==
    LET words == SelectSeq(SplitWords(title, ""), NotStopWord)
    IN  IF Len(title) < 20 \/ Len(words) < 3 THEN <<>>
        ELSE Starts(FindIter(s, LitI(JoinWords(words))))

\* find_title_mentions(text, title)
FindTitleMentions(s, title) ==
    LET words == SelectSeq(SplitWords(title, ""), NotStopWord)
    IN  IF Len(title) < 20 \/ Len(words) < 3 THEN <<>>
        ELSE Starts(FindIter(s, LitI(JoinWords(SubSeq(words, 1, Min(5, Len(words)))))))

ref_markers == <<"references\n", "bibliography\n", "literature cited", "works cited">>

\* len(re.findall(r'10\.\d{4}/', s))
DoiCount(s) == Len(FindIter(s, doi_prefix_pattern))

\* is_in_reference_section looking for the marker in all the text before
\* the position.
IsInReferenceSectionOfAllBefore(s, position) ==
    LET text_before == LowerStr(Slice(s, 0, position))
        AfterMarker(marker) ==
            Slice(text_before, StrRFind(text_before, marker), Len(text_before))
    IN  \/ \E i \in 1..Len(ref_markers) :
              /\ Contains(text_before, ref_markers[i])
              /\ DoiCount(AfterMarker(ref_markers[i])) > 3
        \/ DoiCount(Slice(s, Max(0, position - 200),
                          Min(Len(s), position + 200))) > 2

\* is_in_reference_section(text, position)
IsInReferenceSection(s, position) ==
    LET text_before == LowerStr(Slice(s, Max(0, position - 5000), position))
        AfterMarker(marker) ==
            Slice(text_before, StrRFind(text_before, marker), Len(text_before))
    IN  \/ \E i \in 1..Len(ref_markers) :
              /\ Contains(text_before, ref_markers[i])
              /\ DoiCount(AfterMarker(ref_markers[i])) > 3
        \/ DoiCount(Slice(s, Max(0, position - 200),
                          Min(Len(s), position + 200))) > 2

\* The sequence of the elements of a set of numbers, ascending.
RECURSIVE Ascending(_)
Ascending(S) ==
    IF S = {} THEN <<>>
    ELSE LET least == CHOOSE x \in S : \A y \in S : x <= y
         IN  <<least>> \o Ascending(S \ {least})

\* The loop over the positions of an author-year or title matcher: a
\* position is kept when its bucket of 100 is not yet seen and it is not
\* left out as a position in the references.
RECURSIVE KeptByBucket(_, _, _, _, _)
KeptByBucket(s, positions, k, seen_positions, exclude_reference_section) ==
    IF k > Len(positions)
    THEN [seen_positions |-> seen_positions, kept |-> <<>>]
    ELSE LET pos == positions[k]
             pos_bucket == pos \div 100
             skip == \/ pos_bucket \in seen_positions
                     \/ /\ exclude_reference_section
                        /\ IsInReferenceSection(s, pos)
             rest == KeptByBucket(s, positions, k + 1,
                                  IF skip THEN seen_positions
                                  ELSE seen_positions \cup {pos_bucket},
                                  exclude_reference_section)
         IN  IF skip THEN rest
             ELSE [rest EXCEPT !.kept = <<pos>> \o @]

\* Mutant of Excerpts: only the numbered citations give excerpts.
ExcerptsOfNumberedOnly(s, positions, context_chars, method, detail) ==
    IF method # "numbered_citation" THEN <<>>
    ELSE [i \in 1..Len(positions) |->
            [context |-> ExtractContext(s, positions[i], context_chars).context,
             start |-> ExtractContext(s, positions[i], context_chars).start,
             end |-> ExtractContext(s, positions[i], context_chars).end,
             citation_position |-> positions[i],
             method |-> method,
             detail |-> detail]]

\* The excerpt at each position, marked with the method that found it.
Excerpts(s, positions, context_chars, method, detail) ==
    [i \in 1..Len(positions) |->
        [context |-> ExtractContext(s, positions[i], context_chars).context,
         start |-> ExtractContext(s, positions[i], context_chars).start,
         end |-> ExtractContext(s, positions[i], context_chars).end,
         citation_position |-> positions[i],
         method |-> method,
         detail |-> detail]]

\* The kept positions of the numbered citations, ascending: none without a
\* reference number, and those in the references left out when excluded.
NumberedKept(s, ref_number, exclude_reference_section) ==
    IF ref_number # None /\ ref_number # 0
    THEN Ascending({pos \in FindNumberedCitations(s, ref_number) :
                       ~(/\ exclude_reference_section
                         /\ IsInReferenceSection(s, pos))})
    ELSE <<>>

\* The positions that the author-year matcher and the title matcher are
\* asked for.
AuthorPositions(s, metadata) ==
    IF metadata.authors # <<>> /\ metadata.year # 0
    THEN FindAuthorCitations(s, metadata.authors, metadata.year, 1)
    ELSE <<>>

TitlePositions(s, metadata) ==
    IF metadata.title # "" THEN FindTitleMentions(s, metadata.title) ELSE <<>>

\* find_citation_contexts(citing_paper_text, cited_doi, context_chars,
\* exclude_reference_section), with metadata what get_paper_metadata
\* returned: found or not, and the authors, year (0 for None) and title
\* when found.  detail is the reference_number, the authors and year, or
\* the title of an excerpt.
FindCitationContexts(s, cited_doi, context_chars, metadata, exclude_reference_section) ==
    IF ~metadata.found THEN <<>>
    ELSE
    Bind(FindReferenceNumberForDoi(s, cited_doi), LAMBDA ref_number :
    Bind(NumberedKept(s, ref_number, exclude_reference_section), LAMBDA numbered :
    Bind(AuthorPositions(s, metadata), LAMBDA author_positions :
    Bind(KeptByBucket(s, author_positions, 1, Range(numbered),
                      exclude_reference_section), LAMBDA by_author :
    Bind(TitlePositions(s, metadata), LAMBDA title_positions :
    Bind(KeptByBucket(s, title_positions, 1, by_author.seen_positions,
                      exclude_reference_section), LAMBDA by_title :
    Bind(Excerpts(s, numbered, context_chars, "numbered_citation",
                  <<ref_number>>)
         \o Excerpts(s, by_author.kept, context_chars, "author_year",
                     <<metadata.authors, metadata.year>>)
         \o Excerpts(s, by_title.kept, context_chars, "title_mention",
                     <<metadata.title>>), LAMBDA results :
    SortedBy(results, "citation_position"))))))))

-----------------------------------------------------------------------------
(* Calls of find_numbered_citations.  The text is put together from short  *)
(* pieces: bracketed citations with stray brackets around them, and a      *)
(* dashed range between a leading phrase and what follows it.              *)

MaxBracketPieces == 3

BracketPieces == {"[", "]", "[12]", "[5-10]", "[5~10]", "a "}

RECURSIVE Joined(_, _)
\* The concatenations of at most n pieces.
Joined(pieces, n) ==
    IF n = 0 THEN {""}
    ELSE LET shorter == Joined(pieces, n - 1)
         IN  shorter \cup {t \o x : t \in shorter, x \in pieces}

BracketTexts == Joined(BracketPieces, MaxBracketPieces)

RangeLeads == {"recorded at ", "reported in studies ", "studies", "at 3 "}
RangeForms == {"10-20", "10~20", "10 - 20"}
RangeTails == {"", " kHz", " ms", " samples", " and more", " of", ", 22"}

RangeTexts == {l \o r \o t : l \in RangeLeads, r \in RangeForms, t \in RangeTails}

\* A number after a word and a blank: alone, and with other numbers near.
SpacedTexts == {"seen in 3 mice.", "circuits 5 , 7 were", "seen in 3 of 12 mice."}

NumberedTexts == BracketTexts \cup RangeTexts \cup SpacedTexts

RefNumbers == {3, 5, 7, 12} \cup (10..20)

Init ==
    /\ text \in NumberedTexts
    /\ op = "none"
    /\ arg = <<>>
    /\ out = <<>>

\* positions = find_numbered_citations(text, ref_number)
FindNumbered(n) ==
    /\ op = "none"
    /\ op' = "find_numbered_citations"
    /\ arg' = [ref_number |-> n]
    /\ out' = FindNumberedCitations(text, n)
    /\ UNCHANGED text

Next == \E n \in RefNumbers : FindNumbered(n)

Spec == Init /\ [][Next]_vars

Numbered == op = "find_numbered_citations"

\* C2: every occurrence of the literal string [N] in the text has its start
\* offset in find_numbered_citations(text, N).
C2_BracketedNumberFound ==
    Numbered =>
        \A p \in 0..Len(text) :
            Occurs(text, "[" \o ToStr(arg.ref_number) \o "]", p) => p \in out

\* A bracketed range [a-b], hyphen or en dash, written at an offset.
bracketed_range ==
    Cat(<<Chr("["), Grp(1, Plus(Digit)), Dash, Grp(2, Plus(Digit)), Chr("]")>>)

BracketedRangeAt(s, p) ==
    LET rs == M(s, bracketed_range, p, NoCaps)
    IN  IF rs = <<>> THEN <<>>
        ELSE <<[a |-> ToInt(Slice(s, rs[1][2][1][1], rs[1][2][1][2])),
                b |-> ToInt(Slice(s, rs[1][2][2][1], rs[1][2][2][2]))]>>

\* C3: for a bracketed range [a-b] in the text, the offset of its bracket is
\* in find_numbered_citations(text, N) when a <= N <= b, and is not when N
\* is outside the range and is not a number written in the bracket.
C3_RangeInclusion ==
    Numbered =>
        \A p \in 0..Len(text) :
            LET r == BracketedRangeAt(text, p)
                n == arg.ref_number
            IN  r # <<>> =>
                    /\ (r[1].a <= n /\ n <= r[1].b) => p \in out
                    /\ (~(r[1].a <= n /\ n <= r[1].b) /\ n \notin {r[1].a, r[1].b})
                          => p \notin out

\* C5: for the text recorded at 10-20 kHz, find_numbered_citations returns
\* no position at all, for every N from 10 to 20.
C5_FrequencyRangeNeverCited ==
    (Numbered /\ text = "recorded at 10-20 kHz" /\ arg.ref_number \in 10..20)
        => out = {}

\* The word that follows offset p, after optional whitespace.
RECURSIVE WordFrom(_, _)
WordFrom(s, p) ==
    IF At(s, p) = "" \/ At(s, p) \in Spaces THEN ""
    ELSE At(s, p) \o WordFrom(s, p + 1)

RECURSIVE SkipSpaces(_, _)
SkipSpaces(s, p) == IF At(s, p) \in Spaces THEN SkipSpaces(s, p + 1) ELSE p

UnitWords == {"Hz", "kHz", "MHz", "GHz", "ms", "s", "m", "%",
              OmegaUpper, "k" \o OmegaUpper, "M" \o OmegaUpper, Degree}

\* C6: a dashed range a-b that is preceded by a word and is not followed by
\* a unit is reported for every N with a <= N <= b, also when an ordinary
\* word follows the range.
C6_WordRangeReported ==
    Numbered =>
        \A p \in 0..Len(text) :
            LET rs == M(text, range_pattern, p, NoCaps)
                m == [start |-> p, end |-> rs[1][1], caps |-> rs[1][2]]
            IN  (/\ rs # <<>>
                 /\ At(text, p - 1) \notin Digits
                 /\ Search(Slice(text, 0, p), letter_before_pattern)
                 /\ WordFrom(text, SkipSpaces(text, m.end)) \notin UnitWords
                 /\ ToInt(Group(text, m, 1)) <= arg.ref_number
                 /\ arg.ref_number <= ToInt(Group(text, m, 2)))
                => p \in out

\* The candidates of Pattern 3 in the text, and the 1-3 digit tokens in the
\* window from 5 characters before a candidate to 20 characters after it.
SpaceCandidates == FindIter(text, space_super_pattern(ToStr(arg.ref_number)))

TokensNear(m) ==
    FindIter(Slice(text, Max(0, m.start - 5), Min(Len(text), m.end + 20)),
             Cat(<<WordB, Digits13, WordB>>))

\* The positions that the other patterns report.
OtherPositions ==
    BracketPositions(text, arg.ref_number) \cup ParenPositions(text, arg.ref_number)
      \cup SuperPositions(text, arg.ref_number)
      \cup GroupSuperPositions(text, arg.ref_number)
      \cup ParenSuperPositions(text, arg.ref_number)
      \cup RangePositions(text, arg.ref_number)

\* C18: find_numbered_citations reports a space-separated candidate
\* (letter, whitespace, N, optional list or range, then whitespace, end of
\* text, comma or full stop) only if a further 1-3 digit token, other than
\* N itself, stands in the window around the candidate; an isolated N after
\* a word, with no other number near, is not reported.
C18_ClusteringHeuristic ==
    Numbered =>
        \A i \in 1..Len(SpaceCandidates) :
            (/\ SpaceCandidates[i].start \in out
             /\ SpaceCandidates[i].start \notin OtherPositions)
            => Len(TokensNear(SpaceCandidates[i])) >= 2

-----------------------------------------------------------------------------
(* Calls of find_author_citations on a text holding one citation of a      *)
(* surname and a four-digit year near the target year.                     *)

MaxTolerance == 2

TargetYears == {2000, 2020}
Tolerances == 0..MaxTolerance
CitedYears == {y + d : y \in TargetYears, d \in (0 - MaxTolerance - 1)..(MaxTolerance + 1)}
CitedNames == {"Smith", "Muller"}
AuthorLists == {<<"Smith">>, <<"M" \o UUmlaut \o "ller">>, <<"Smith", "Jones">>}

AuthorTexts ==
    {"see (" \o n \o ", " \o ToStr(y) \o ") x" : n \in CitedNames, y \in CitedYears}
    \cup {"see " \o n \o " (" \o ToStr(y) \o ") x" : n \in CitedNames, y \in CitedYears}
    \cup {"(" \o n \o " et al., " \o ToStr(y) \o ")" : n \in CitedNames, y \in CitedYears}

InitAuthor ==
    /\ text \in AuthorTexts
    /\ op = "none"
    /\ arg = <<>>
    /\ out = <<>>

\* positions = find_author_citations(text, authors, year, year_tolerance)
FindAuthor(authors, year, year_tolerance) ==
    /\ op = "none"
    /\ op' = "find_author_citations"
    /\ arg' = [authors |-> authors, year |-> year, year_tolerance |-> year_tolerance]
    /\ out' = FindAuthorCitations(text, authors, year, year_tolerance)
    /\ UNCHANGED text

NextAuthor ==
    \E authors \in AuthorLists, year \in TargetYears, k \in Tolerances :
        FindAuthor(authors, year, k)

SpecAuthor == InitAuthor /\ [][NextAuthor]_vars

AuthorCall == op = "find_author_citations"

Abs(n) == IF n < 0 THEN 0 - n ELSE n

\* The citation (S, Y) with a four-digit year Y is written at offset p of s.
ParenCitationAt(s, S, p) ==
    LET q == p + Len(S) + 3
    IN  /\ Occurs(s, "(" \o S \o ", ", p)
        /\ \A i \in q..(q + 3) : At(s, i) \in Digits
        /\ At(s, q + 4) = ")"

ParenCitationYear(s, S, p) == ToInt(Slice(s, p + Len(S) + 3, p + Len(S) + 7))

\* Some returned position lies in the citation (S, Y) written at offset p.
ReportedWithin(s, S, p) ==
    \E i \in 1..Len(out) : out[i] >= p /\ out[i] <= p + Len(S) + 7

\* C4: for a single author S, year y and tolerance k, find_author_citations
\* returns a position for the citation (S, Y) exactly when |Y - y| <= k.
C4_YearToleranceSymmetry ==
    (AuthorCall /\ Len(arg.authors) = 1) =>
        \A S \in {arg.authors[1], normalize_author_name(arg.authors[1])} :
            \A p \in 0..Len(text) :
                ParenCitationAt(text, S, p) =>
                    (ReportedWithin(text, S, p)
                        <=> Abs(ParenCitationYear(text, S, p) - arg.year)
                               <= arg.year_tolerance)

\* A citation of a later year at the edge of the tolerance is found.
C4_Witness ==
    /\ AuthorCall
    /\ Len(arg.authors) = 1
    /\ arg.year_tolerance >= 1
    /\ \E p \in 0..Len(text) :
          /\ ParenCitationAt(text, arg.authors[1], p)
          /\ ParenCitationYear(text, arg.authors[1], p) = arg.year + arg.year_tolerance
          /\ ReportedWithin(text, arg.authors[1], p)

\* The citation S (Y) with a four-digit year Y is written at offset p of s.
NameYearAt(s, S, p) ==
    LET q == p + Len(S) + 2
    IN  /\ Occurs(s, S \o " (", p)
        /\ \A i \in q..(q + 3) : At(s, i) \in Digits
        /\ At(s, q + 4) = ")"

NameYear(s, S, p) == ToInt(Slice(s, p + Len(S) + 2, p + Len(S) + 6))

\* C24: for a single author S, year y and tolerance k, find_author_citations
\* returns no position for a citation written S (Y) whose four-digit year
\* Y lies outside y - k .. y + k.
C24_YearsBoundMatching ==
    (AuthorCall /\ Len(arg.authors) = 1) =>
        \A S \in {arg.authors[1], normalize_author_name(arg.authors[1])} :
            \A p \in 0..Len(text) :
                (/\ NameYearAt(text, S, p)
                 /\ Abs(NameYear(text, S, p) - arg.year) > arg.year_tolerance)
                => \A i \in 1..Len(out) :
                      out[i] < p \/ out[i] > p + Len(S) + 6

-----------------------------------------------------------------------------
(* Calls of extract_context and extract_word_context on texts put together *)
(* from words, sentence ends and blanks.                                   *)

MaxContextPieces == 4
MaxBudget == 2

ContextPieces == {"a", ". ", "! ", ".\n", " "}
ContextTexts == Joined(ContextPieces, MaxContextPieces)
Budgets == 0..MaxBudget

InitContext ==
    /\ text \in ContextTexts
    /\ op = "none"
    /\ arg = <<>>
    /\ out = <<>>

\* ctx = extract_context(text, position, context_chars)
CallExtractContext(position, context_chars) ==
    /\ op = "none"
    /\ op' = "extract_context"
    /\ arg' = [position |-> position, context_chars |-> context_chars]
    /\ out' = ExtractContext(text, position, context_chars)
    /\ UNCHANGED text

\* ctx = extract_word_context(text, start, end, num_words)
CallExtractWordContext(start, end, num_words) ==
    /\ op = "none"
    /\ op' = "extract_word_context"
    /\ arg' = [start |-> start, end |-> end, num_words |-> num_words]
    /\ out' = ExtractWordContext(text, start, end, num_words)
    /\ UNCHANGED text

NextContext ==
    \/ \E position \in 0..Len(text), b \in Budgets :
          CallExtractContext(position, b)
    \/ \E start \in 0..Len(text), b \in Budgets :
          \E end \in start..Len(text) : CallExtractWordContext(start, end, b)

SpecContext == InitContext /\ [][NextContext]_vars

\* The offsets at which a sentence end (mark and blank) is written.
Terminators(s) ==
    {i \in 0..(Len(s) - 2) : \E k \in 1..4 : Slice(s, i, i + 2) = SentenceEnds[k]}

RawStart == Max(0, arg.position - arg.context_chars)
RawEnd == Min(Len(text), arg.position + arg.context_chars)

\* The sentence ends wholly before the raw window, and those at or after
\* its end, within the region searched.
EndsBefore ==
    {i \in Terminators(text) : i + 2 <= RawStart /\ i >= RawStart - SnapRegion}
EndsAfter ==
    {i \in Terminators(text) : i >= RawEnd /\ i + 2 <= RawEnd + SnapRegion}

\* The raw window lies inside one sentence that has a sentence before it
\* and a sentence end of its own.
WindowInsideSentence ==
    /\ op = "extract_context"
    /\ EndsBefore # {}
    /\ EndsAfter # {}
    /\ Terminators(text) \subseteq
          {i \in Terminators(text) : i + 2 <= RawStart \/ i >= RawEnd}

\* C7: when the raw window stays inside a sentence, the returned window
\* starts right after the nearest sentence end before it and ends right
\* after the mark of the nearest sentence end after it, and the context is
\* that sentence.
C7_SentenceSnapping ==
    WindowInsideSentence =>
        LET before == CHOOSE i \in EndsBefore : \A j \in EndsBefore : j <= i
            after == CHOOSE i \in EndsAfter : \A j \in EndsAfter : j >= i
        IN  /\ out.start = before + 2
            /\ out.end = after + 1
            /\ out.context = Strip(Slice(text, before + 2, after + 1))

\* A window inside a sentence with two sentence ends before it or after it.
C7_Witness ==
    /\ WindowInsideSentence
    /\ Cardinality(EndsBefore) + Cardinality(EndsAfter) >= 3
    /\ out.context = "a."

\* C10: extract_context returns 0 <= start <= position <= end <= len(text),
\* and extract_word_context returns 0 <= context_start <= start and
\* end <= context_end <= len(text).
C10_ExcerptOffsets ==
    /\ op = "extract_context" =>
          /\ 0 <= out.start /\ out.start <= arg.position
          /\ arg.position <= out.end /\ out.end <= Len(text)
    /\ op = "extract_word_context" =>
          /\ 0 <= out.context_start /\ out.context_start <= arg.start
          /\ arg.end <= out.context_end /\ out.context_end <= Len(text)

\* Both ends of the raw window were moved by the snapping.
C10_Witness ==
    /\ op = "extract_context"
    /\ out.start < RawStart
    /\ out.end > RawEnd

WordContextCall == op = "extract_word_context"

\* C14: extract_word_context returns a window whose part before the span
\* holds exactly min(b, words before the span) whitespace-delimited words
\* and whose part after the span holds exactly min(b, words after the span)
\* words, for every budget b >= 0.
C14_WordBudget ==
    WordContextCall =>
        /\ WordCount(Slice(text, out.context_start, arg.start))
             = Min(arg.num_words, WordCount(Slice(text, 0, arg.start)))
        /\ WordCount(Slice(text, arg.end, out.context_end))
             = Min(arg.num_words, WordCount(Slice(text, arg.end, Len(text))))

\* The same for the budgets of at least one word.
C14_PositiveBudget == (WordContextCall /\ arg.num_words >= 1) => C14_WordBudget

-----------------------------------------------------------------------------
(* Calls of find_dandi_mentions_with_positions on a text that is a row of  *)
(* dataset mentions with fillers between them.                             *)

MaxMentions == 3

Gaps == {50, 200, 201}

Placed == [gap : Gaps, form : MentionForms]

RECURSIVE Rows(_)
\* The rows of at most n placed mentions.
Rows(n) ==
    IF n = 0 THEN {<<>>}
    ELSE LET shorter == Rows(n - 1)
         IN  shorter \cup {Append(r, x) : r \in shorter, x \in Placed}

Filler50 == "xxxxxxxxxxxxxxxxxxxxxxxxxxxxxxxxxxxxxxxxxxxxxxxxxx"

\* n characters in which no pattern matches.
Filler(n) ==
    Slice(Filler50 \o Filler50 \o Filler50 \o Filler50 \o Filler50, 0, n)

RECURSIVE RowText(_, _)
RowText(mentions, k) ==
    IF k > Len(mentions) THEN ""
    ELSE Filler(mentions[k].gap) \o mentions[k].form
         \o RowText(mentions, k + 1)

InitMentions ==
    /\ text = ""
    /\ op = "none"
    /\ arg = <<>>
    /\ out = <<>>

\* mentions = find_dandi_mentions_with_positions(text)
FindMentions(mentions) ==
    /\ op = "none"
    /\ op' = "find_dandi_mentions_with_positions"
    /\ text' = RowText(mentions, 1)
    /\ arg' = [mentions |-> mentions]
    /\ out' = DedupedMentions(RawMatches(mentions))

NextMentions == \E mentions \in Rows(MaxMentions) : FindMentions(mentions)

SpecMentions == InitMentions /\ [][NextMentions]_vars

MentionsCall == op = "find_dandi_mentions_with_positions"

\* Two raw matches of one dataset whose spans overlap or lie within the
\* threshold of each other.
Near(a, b) ==
    /\ a.id = b.id
    /\ a.start <= b.end + PROXIMITY_THRESHOLD
    /\ b.start <= a.end + PROXIMITY_THRESHOLD

\* The raw match m went into the output entry e.
Holds(e, m) == e.id = m.id /\ e.start <= m.start /\ m.end <= e.end

C27_SeparationAfterMerging ==
    MentionsCall =>
        /\ \A i, j \in 1..Len(out) :
              (i # j /\ out[i].id = out[j].id) =>
                  \/ out[j].start - out[i].end > PROXIMITY_THRESHOLD
                  \/ out[i].start - out[j].end > PROXIMITY_THRESHOLD
        /\ DedupedMentions(out) = out

\* Three mentions of one dataset: the second 200 characters after the first
\* and merged with it, the third 201 characters on and kept apart.
C27_Witness ==
    /\ MentionsCall
    /\ Len(arg.mentions) = 3
    /\ arg.mentions[2].gap = PROXIMITY_THRESHOLD
    /\ arg.mentions[3].gap = PROXIMITY_THRESHOLD + 1
    /\ \E i, j \in 1..Len(out) :
          /\ i # j
          /\ out[i].id = out[j].id
          /\ Len(out[i].matched_strings) >= 2
          /\ out[j].start - out[i].end = PROXIMITY_THRESHOLD + 1

\* C13 as stated: the list returned by find_dandi_mentions_with_positions
\* is ordered by dataset id, then by start offset, then by descending
\* length of the match.
C13_OrderedById ==
    MentionsCall =>
        \A i, j \in 1..Len(out) : i < j => ~KeyLess(out[j], out[i])

\* C13 amended: the list returned by find_dandi_mentions_with_positions is
\* ordered by start offset, and entries that start at the same offset are
\* ordered by dataset id.
C13_OrderedByStart ==
    MentionsCall =>
        \A i, j \in 1..Len(out) :
            i < j => \/ out[i].start < out[j].start
                     \/ /\ out[i].start = out[j].start
                        /\ IdLess(out[i].id, out[j].id)

\* A mention of the greater id comes first in the text and in the list, and
\* two entries of the list start at the same offset.
C13_Witness ==
    /\ MentionsCall
    /\ \E i, j \in 1..Len(out) :
          i < j /\ IdLess(out[j].id, out[i].id) /\ out[i].start < out[j].start
    /\ \E i, j \in 1..Len(out) : i < j /\ out[i].start = out[j].start

-----------------------------------------------------------------------------
(* Calls of find_reference_number_for_doi on a text put together from      *)
(* numbered lines, names and DOIs.                                         *)

MaxReferencePieces == 5

ReferencePieces == {"\n1. ", "Doe ", "10.1000/abc ", "10.1000/xyz "}

ReferenceTexts == Joined(ReferencePieces, MaxReferencePieces)

TargetDois == {"10.1000/xyz", "10.1000/XYZ"}

InitReference ==
    /\ text \in ReferenceTexts
    /\ op = "none"
    /\ arg = <<>>
    /\ out = <<>>

\* ref_number = find_reference_number_for_doi(text, doi)
FindReferenceNumber(doi) ==
    /\ op = "none"
    /\ op' = "find_reference_number_for_doi"
    /\ arg' = [doi |-> doi]
    /\ out' = FindReferenceNumberForDoi(text, doi)
    /\ UNCHANGED text

NextReference == \E doi \in TargetDois : FindReferenceNumber(doi)

SpecReference == InitReference /\ [][NextReference]_vars

ReferenceCall == op = "find_reference_number_for_doi"

\* The text holds the DOI, letter case aside.
HoldsDoi(s, doi) == Contains(LowerStr(s), LowerStr(doi))

\* C9: find_reference_number_for_doi returns None for every text that does
\* not contain the DOI, compared without regard to letter case, whatever
\* numbered lines and other DOIs the text holds.
C9_AbsentDoiGivesNone ==
    (ReferenceCall /\ ~HoldsDoi(text, arg.doi)) => out = None

\* A text without the DOI that has a numbered line and a dense run of
\* other DOIs, for which None is returned.
C9_Witness ==
    /\ ReferenceCall
    /\ ~HoldsDoi(text, arg.doi)
    /\ ValidRefs(text) # <<>>
    /\ FindReferenceSectionStart(text) < Len(text)
    /\ out = None

-----------------------------------------------------------------------------
(* Calls of find_citation_contexts on a paper with one citation in its     *)
(* body and one entry in its reference list, for the metadata that the     *)
(* lookup of the cited DOI may return.                                     *)

MaxYearShift == 1

\* What stands between the body, the heading and the entry.
Separators == {" ", "\n", " ... ", "\n\n"}

PaperText(sep) ==
    "Prior work (Doe et al., 2019) established X." \o sep \o "References"
      \o sep \o "1. Doe J, Roe A. Title. J. Neurosci 2019. doi:10.1000/xyz"

\* The bodies of the papers: the citation alone, behind a bracketed number
\* at the very start of the text, a second time more than 100 characters
\* on, and the cited title with a bracketed number.
Bodies ==
    {"Prior work (Doe et al., 2019) established X.",
     "[1] Prior work (Doe et al., 2019) established X.",
     "Prior work (Doe et al., 2019) established X. Later recordings in other areas gave the same picture, as Doe et al. (2019) found.",
     "Cortical population dynamics were studied before [1]."}

\* The title of the cited paper, short and at least 20 characters long.
LongTitle == "Cortical population dynamics"

EntryTitles == {"Title", LongTitle}

\* The entries after the one of the cited paper, one to a line.
FurtherEntries ==
    "\n2. Poe B. 2001. doi:10.1000/abc" \o "\n3. Poe B. 2002. doi:10.1000/abd"
      \o "\n4. Poe B. 2003. doi:10.1000/abe"

PaperWith(body, sep, title, further) ==
    body \o sep \o "References" \o sep \o "1. Doe J, Roe A. " \o title
      \o ". J. Neurosci 2019. doi:10.1000/xyz" \o further

PaperTexts ==
    {PaperText(sep) : sep \in Separators}
      \cup {PaperWith(body, sep, LongTitle, "") :
               body \in Bodies, sep \in {" ... ", "\n"}}
      \cup {PaperWith(body, "\n", LongTitle, FurtherEntries) : body \in Bodies}

CitedDoi == "10.1000/xyz"

CitedYear == 2019

NoMetadata == [found |-> FALSE, authors |-> <<>>, year |-> 0, title |-> ""]

Metadatas ==
    {NoMetadata} \cup
    [found : {TRUE},
     authors : {<<>>, <<"Doe">>, <<"Doe", "Roe">>},
     year : (CitedYear - MaxYearShift)..(CitedYear + MaxYearShift),
     title : EntryTitles]

ContextChars == {50}

InitCitations ==
    /\ text \in PaperTexts
    /\ op = "none"
    /\ arg = <<>>
    /\ out = <<>>

\* results = find_citation_contexts(text, cited_doi, context_chars,
\*                                  exclude_reference_section)
\* where get_paper_metadata(cited_doi) returns metadata.
FindContexts(metadata, context_chars, exclude_reference_section) ==
    /\ op = "none"
    /\ op' = "find_citation_contexts"
    /\ arg' = [metadata |-> metadata, context_chars |-> context_chars,
               exclude_reference_section |-> exclude_reference_section]
    /\ out' = FindCitationContexts(text, CitedDoi, context_chars, metadata,
                                   exclude_reference_section)
    /\ UNCHANGED text

NextCitations ==
    \E metadata \in Metadatas, context_chars \in ContextChars,
       exclude_reference_section \in BOOLEAN :
        FindContexts(metadata, context_chars, exclude_reference_section)

SpecCitations == InitCitations /\ [][NextCitations]_vars

CitationsCall == op = "find_citation_contexts"

\* C1: for the paper text with the citation (Doe et al., 2019) in its body
\* and the entry of the cited paper in its reference list, a target with
\* authors Doe and year 2019 and exclude_reference_section set,
\* find_citation_contexts returns exactly one excerpt; it is anchored
\* outside the reference list, its method is author_year, its context
\* contains the words established X., and no excerpt has the method
\* numbered_citation.
C1_EndToEnd ==
    (/\ CitationsCall
     /\ arg.metadata.found
     /\ arg.metadata.authors = <<"Doe">>
     /\ arg.metadata.year = CitedYear
     /\ arg.exclude_reference_section)
    => /\ Len(out) = 1
       /\ out[1].method = "author_year"
       /\ out[1].citation_position < StrFind(text, "References")
       /\ Contains(out[1].context, "established X.")
       /\ \A i \in 1..Len(out) : out[i].method # "numbered_citation"

\* The positions that the matchers of a call hold out, and whether one is
\* left out as a position in the references.
ReferenceNumber == FindReferenceNumberForDoi(text, CitedDoi)

MatcherPositions ==
    Range(AuthorPositions(text, arg.metadata))
      \cup Range(TitlePositions(text, arg.metadata))

LeftOut(pos) ==
    arg.exclude_reference_section /\ IsInReferenceSection(text, pos)

Methods(results) == {results[i].method : i \in 1..Len(results)}

\* The excerpts of the author-year and title matchers in the bucket of pos.
BucketExcerpts(pos) ==
    {i \in 1..Len(out) :
        /\ out[i].method \in {"author_year", "title_mention"}
        /\ out[i].citation_position \div 100 = pos \div 100}

\* C11: when the reference number is not resolved, find_citation_contexts
\* returns no numbered_citation excerpt and still reports the hits of the
\* author-year and title matchers, one excerpt for each bucket that has a
\* hit which is not left out; when the lookup of the metadata yields
\* nothing, or no matcher holds out a position, the result is the empty list.
C11_GracefulFallback ==
    CitationsCall =>
        /\ ~arg.metadata.found => out = <<>>
        /\ (arg.metadata.found /\ ReferenceNumber = None) =>
              /\ "numbered_citation" \notin Methods(out)
              /\ \E positions \in {MatcherPositions} :
                    /\ \A pos \in positions :
                          ~LeftOut(pos) => BucketExcerpts(pos) # {}
                    /\ positions = {} => out = <<>>

\* No reference number, and the author-year matcher is reported for two
\* buckets.
C11_Witness ==
    /\ CitationsCall
    /\ arg.metadata.found
    /\ ReferenceNumber = None
    /\ Methods(out) = {"author_year"}
    /\ Len(out) = 2

\* C12: every bucket of 100 offsets that holds a hit of the author-year or
\* title matcher which is not left out as reference section contributes
\* exactly one author_year or title_mention excerpt, whatever the offsets
\* of the numbered citations are.
C12_OneExcerptPerBucket ==
    (CitationsCall /\ arg.metadata.found) =>
        \A pos \in MatcherPositions :
            ~LeftOut(pos) => Cardinality(BucketExcerpts(pos)) = 1

-----------------------------------------------------------------------------
(* The bibliography of a paper by its heading: find_bibliography_start and *)
(* is_in_bibliography_section of classify_usage.py.                        *)

bibliography_markers ==
    <<"References", "Bibliography", "Literature Cited", "Cited Literature",
      "Reference List">>

\* r'\bReferences\b' and the like, under re.IGNORECASE.
MarkerPattern(marker) == Cat(<<WordB, LitI(marker), WordB>>)

\* The loop over the markers of find_bibliography_start: the greatest
\* start of the last match of a marker, from last_marker_pos on.
RECURSIVE LastMarkerStart(_, _, _)
LastMarkerStart(s, k, last_marker_pos) ==
    IF k > Len(bibliography_markers) THEN last_marker_pos
    ELSE LastMarkerStart(s, k + 1,
             Bind(FindIter(s, MarkerPattern(bibliography_markers[k])),
                  LAMBDA matches :
                      IF matches # <<>>
                      THEN Max(last_marker_pos, matches[Len(matches)].start)
                      ELSE last_marker_pos))

\* The same loop taking the first match of each marker.
RECURSIVE FirstMarkerStart(_, _, _)
FirstMarkerStart(s, k, last_marker_pos) ==
    IF k > Len(bibliography_markers) THEN last_marker_pos
    ELSE FirstMarkerStart(s, k + 1,
             Bind(FindIter(s, MarkerPattern(bibliography_markers[k])),
                  LAMBDA matches :
                      IF matches # <<>>
                      THEN Max(last_marker_pos, matches[1].start)
                      ELSE last_marker_pos))

\* find_bibliography_start taking the first occurrence of each marker.
FindBibliographyStartOfFirst(s) ==
    Bind(FirstMarkerStart(s, 1, -1),
         LAMBDA last_marker_pos :
             IF last_marker_pos # -1 THEN last_marker_pos ELSE Len(s))

\* find_bibliography_start(text)
FindBibliographyStart(s) ==
    Bind(LastMarkerStart(s, 1, -1),
         LAMBDA last_marker_pos :
             IF last_marker_pos # -1 THEN last_marker_pos ELSE Len(s))

\* The loop over the markers of is_in_bibliography_section: the greatest
\* end of the last match of a marker.
RECURSIVE LastMarkerEnd(_, _, _)
LastMarkerEnd(s, k, last_marker_pos) ==
    IF k > Len(bibliography_markers) THEN last_marker_pos
    ELSE LastMarkerEnd(s, k + 1,
             Bind(FindIter(s, MarkerPattern(bibliography_markers[k])),
                  LAMBDA matches :
                      IF matches # <<>>
                      THEN Max(last_marker_pos, matches[Len(matches)].end)
                      ELSE last_marker_pos))

other_sections ==
    <<"acknowledgments", "supplementary", "appendix", "author contributions",
      "[hyperlinks]">>

\* The loop of is_in_bibliography_section taking the first match of each
\* marker.
RECURSIVE FirstMarkerEnd(_, _, _)
FirstMarkerEnd(s, k, last_marker_pos) ==
    IF k > Len(bibliography_markers) THEN last_marker_pos
    ELSE FirstMarkerEnd(s, k + 1,
             Bind(FindIter(s, MarkerPattern(bibliography_markers[k])),
                  LAMBDA matches :
                      IF matches # <<>>
                      THEN Max(last_marker_pos, matches[1].end)
                      ELSE last_marker_pos))

\* is_in_bibliography_section judging from the first heading.
IsInBibliographySectionOfFirst(s, position) ==
    Bind(FirstMarkerEnd(LowerStr(Slice(s, 0, position)), 1, -1),
         LAMBDA last_marker_pos :
             IF last_marker_pos = -1 THEN FALSE
             ELSE Bind(LowerStr(Slice(s, last_marker_pos, position)),
                       LAMBDA text_between :
                           \A i \in 1..Len(other_sections) :
                               ~Contains(text_between, other_sections[i])))

\* is_in_bibliography_section(text, position)
IsInBibliographySection(s, position) ==
    Bind(LastMarkerEnd(LowerStr(Slice(s, 0, position)), 1, -1),
         LAMBDA last_marker_pos :
             IF last_marker_pos = -1 THEN FALSE
             ELSE Bind(LowerStr(Slice(s, last_marker_pos, position)),
                       LAMBDA text_between :
                           \A i \in 1..Len(other_sections) :
                               ~Contains(text_between, other_sections[i])))

(* Calls of the two on a text put together from headings, a section name   *)
(* and letters that join words.                                            *)

MaxHeadingPieces == 3

HeadingPieces ==
    {"References ", "reference list", "Cited Literature ", "Appendix ", "x"}

HeadingTexts == Joined(HeadingPieces, MaxHeadingPieces)

InitBibliography ==
    /\ text \in HeadingTexts
    /\ op = "none"
    /\ arg = <<>>
    /\ out = <<>>

\* bib_start = find_bibliography_start(text)
CallFindBibliographyStart ==
    /\ op = "none"
    /\ op' = "find_bibliography_start"
    /\ arg' = <<>>
    /\ out' = FindBibliographyStart(text)
    /\ UNCHANGED text

\* in_bibliography = is_in_bibliography_section(text, position)
CallIsInBibliographySection(position) ==
    /\ op = "none"
    /\ op' = "is_in_bibliography_section"
    /\ arg' = [position |-> position]
    /\ out' = IsInBibliographySection(text, position)
    /\ UNCHANGED text

NextBibliography ==
    \/ CallFindBibliographyStart
    \/ \E position \in 0..Len(text) : CallIsInBibliographySection(position)

SpecBibliography == InitBibliography /\ [][NextBibliography]_vars

BibliographyStartCall == op = "find_bibliography_start"

\* The heading keywords in small letters.
Keywords ==
    [k \in 1..Len(bibliography_markers) |-> LowerStr(bibliography_markers[k])]

\* The occurrences of the heading keyword number k as a whole word of s,
\* where lower is s in small letters, and those of all keywords in s:
\* their spans.
SpansOf(s, lower, k) ==
    {<<p, p + Len(Keywords[k])>> :
        p \in {q \in 0..(Len(s) - Len(Keywords[k])) :
                 /\ Slice(lower, q, q + Len(Keywords[k])) = Keywords[k]
                 /\ AtWordB(s, q)
                 /\ AtWordB(s, q + Len(Keywords[k]))}}

KeywordSpans(s) ==
    Bind(LowerStr(s),
         LAMBDA lower : UNION {SpansOf(s, lower, k) : k \in 1..Len(Keywords)})

\* The occurrence that starts last.
LastSpan(spans) == CHOOSE sp \in spans : \A other \in spans : other[1] <= sp[1]

\* C15 as stated: find_bibliography_start returns the end offset of the
\* last match of a heading keyword in the whole text, letter case aside,
\* and len(text) when no keyword occurs.
C15_EndOfLastMatch ==
    BibliographyStartCall =>
        \E spans \in {KeywordSpans(text)} :
            out = IF spans = {} THEN Len(text) ELSE LastSpan(spans)[2]

\* C15 amended: find_bibliography_start returns the start offset of the
\* last match of a heading keyword in the whole text, letter case aside,
\* and len(text) when no keyword occurs.
C15_StartOfLastMatch ==
    BibliographyStartCall =>
        \E spans \in {KeywordSpans(text)} :
            out = IF spans = {} THEN Len(text) ELSE LastSpan(spans)[1]

\* Two keywords occur, and the start of the later one is returned.
C15_Witness ==
    /\ BibliographyStartCall
    /\ Cardinality(KeywordSpans(text)) >= 2
    /\ out > 0
    /\ out < Len(text)
    /\ LowerStr(Slice(text, out, out + 14)) = "reference list"

BibliographySectionCall == op = "is_in_bibliography_section"

\* An occurrence of a section-ending marker in text[from:to], letter case
\* aside.
SectionEnds(from, to) ==
    \E i \in 1..Len(other_sections) :
        Contains(LowerStr(Slice(text, from, to)), other_sections[i])

\* C19: is_in_bibliography_section(text, p) is true exactly when a heading
\* keyword occurs as a word in the text before p, text[:p], and no
\* section-ending marker occurs between the end of the last such heading
\* and p; it is false when no heading comes before p.
C19_TrailingSection ==
    BibliographySectionCall =>
        \E before \in {KeywordSpans(Slice(text, 0, arg.position))} :
            out = /\ before # {}
                  /\ \E last \in before :
                        /\ \A sp \in before : sp[2] <= last[2]
                        /\ ~SectionEnds(last[2], arg.position)

\* A section-ending marker stands between two headings and p comes after
\* the second heading: p is in the bibliography.
C19_Witness ==
    /\ BibliographySectionCall
    /\ out = TRUE
    /\ Cardinality(KeywordSpans(Slice(text, 0, arg.position))) >= 2
    /\ \E sp \in KeywordSpans(Slice(text, 0, arg.position)) :
          SectionEnds(sp[2], arg.position)

\* A heading comes before p and a section-ending marker after it: p is
\* past the bibliography.
C19_WitnessPast ==
    /\ BibliographySectionCall
    /\ out = FALSE
    /\ KeywordSpans(Slice(text, 0, arg.position)) # {}

\* C28: whenever is_in_bibliography_section(text, p) is true, p is not
\* below find_bibliography_start(text): a mention classified as bibliography
\* never lies inside text[:bib_start], which find_citations_programmatically
\* searches as body text.
C28_HeaderConsistency ==
    (BibliographySectionCall /\ out = TRUE) =>
        arg.position >= FindBibliographyStart(text)

\* The same for the texts in which at most one heading keyword occurs as a
\* whole word and the offset does not cut a word.
C28_SingleHeading ==
    (/\ BibliographySectionCall
     /\ out = TRUE
     /\ Cardinality(KeywordSpans(text)) <= 1
     /\ KeywordSpans(Slice(text, 0, arg.position)) \subseteq KeywordSpans(text))
    => arg.position >= FindBibliographyStart(text)

-----------------------------------------------------------------------------
(* Calls of find_reference_section_start on a text with a row of DOIs:     *)
(* some close together, then some far apart, then some close together.     *)

MaxNear == 4
MaxFar == 10

\* The distance from one DOI to the next: close, and far such that three
\* close and seven far steps make 4990 or 5000 characters.
NearStep == Len("10.1000/; ")
FarSteps == {700, 710}

Filler250 == Filler50 \o Filler50 \o Filler50 \o Filler50 \o Filler50

\* The text from one DOI prefix to the next, step characters in all.
Stretch(step) ==
    "10.1000/"
      \o Slice(Filler250 \o Filler250 \o Filler250 \o Filler250 \o Filler250
                 \o Filler250, 0, step - NearStep)
      \o "; "

Layouts == [lead : 0..MaxNear, far : 0..MaxFar, step : FarSteps, tail : 0..MaxNear]

RECURSIVE Times(_, _)
Times(str, n) == IF n = 0 THEN "" ELSE str \o Times(str, n - 1)

\* lead DOIs with a close step after each, far DOIs with a far step after
\* each, and tail DOIs with a close step after each.
DoiText(layout) ==
    "See "
      \o Times(Stretch(NearStep), layout.lead)
      \o Times(Stretch(layout.step), layout.far)
      \o Times(Stretch(NearStep), layout.tail)

InitDensity ==
    /\ text = ""
    /\ op = "none"
    /\ arg = <<>>
    /\ out = <<>>

\* start = find_reference_section_start(text)
CallFindReferenceSectionStart(layout) ==
    /\ op = "none"
    /\ op' = "find_reference_section_start"
    /\ text' = DoiText(layout)
    /\ arg' = [layout |-> layout]
    /\ out' = FindReferenceSectionStart(text')

NextDensity == \E layout \in Layouts : CallFindReferenceSectionStart(layout)

SpecDensity == InitDensity /\ [][NextDensity]_vars

DensityCall == op = "find_reference_section_start"

\* The offsets of the DOIs of the text of a layout, the first one numbered
\* 0, as the layout places them.
DoiCountOf(layout) == layout.lead + layout.far + layout.tail

DoiOffset(layout, i) ==
    Len("See ") + NearStep * Min(i, layout.lead)
      + layout.step * Min(Max(0, i - layout.lead), layout.far)
      + NearStep * Max(0, i - layout.lead - layout.far)

\* The window of four DOIs from DOI i on spans fewer than 1000 characters,
\* and fewer than 10 further DOIs follow DOI i or the span to the 10th
\* following DOI is under 5000 characters.
DenseWindow(layout, i) ==
    /\ i + 3 <= DoiCountOf(layout) - 1
    /\ DoiOffset(layout, i + 3) - DoiOffset(layout, i) < 1000

Qualifies(layout, i) ==
    /\ DenseWindow(layout, i)
    /\ \/ DoiCountOf(layout) - 1 - i < 10
       \/ DoiOffset(layout, i + 10) - DoiOffset(layout, i) < 5000

\* C16: find_reference_section_start returns len(text) when the text has
\* fewer than 4 DOI prefixes; otherwise the offset of the first DOI of the
\* earliest window of 4 consecutive DOIs that spans fewer than 1000
\* characters and for which fewer than 10 further DOIs follow or the span
\* to the 10th following DOI is under 5000 characters; len(text) when no
\* window qualifies.  The result is len(text) or the offset of a DOI.
C16_DenseWindow ==
    DensityCall =>
        \E windows \in {{i \in 0..(DoiCountOf(arg.layout) - 1) :
                           Qualifies(arg.layout, i)}} :
            /\ DoiCountOf(arg.layout) < 4 => out = Len(text)
            /\ windows = {} => out = Len(text)
            /\ windows # {} =>
                  \E i \in windows :
                      /\ \A j \in windows : i <= j
                      /\ out = DoiOffset(arg.layout, i)
                      /\ Slice(text, out, out + 8) = "10.1000/"

\* More than 10 DOIs; the first window of four is close together but the
\* 10th DOI after its first is 5000 characters on, and the second window
\* is returned.
C16_Witness ==
    /\ DensityCall
    /\ DoiCountOf(arg.layout) > 10
    /\ DenseWindow(arg.layout, 0)
    /\ DoiOffset(arg.layout, 10) - DoiOffset(arg.layout, 0) = 5000
    /\ out = DoiOffset(arg.layout, 1)

\* Windows close together, none of which qualifies: len(text).
C16_WitnessNone ==
    /\ DensityCall
    /\ DenseWindow(arg.layout, 0)
    /\ out = Len(text)

-----------------------------------------------------------------------------
(* Calls of is_in_reference_section on a paper with a heading and a list   *)
(* of entries with one DOI each, after a body or after an earlier list.    *)

MaxEarlier == 4
MaxEntries == 5

Headings == {"References\n", "References ", "Works Cited: ", "Notes: "}

\* The distance from one DOI of the list to the next.
EntrySteps == {NearStep, 210, 1300}

EarlierStep == 21 * NearStep

SectionLayouts ==
    [earlier : {0, MaxEarlier}, heading : Headings, entries : 0..MaxEntries,
     step : EntrySteps]

\* What comes before the heading: a body without DOIs, or a heading in
\* capital letters and a list of its own.
Opening(layout) ==
    IF layout.earlier = 0 THEN "Body text. "
    ELSE "REFERENCES\n" \o Times(Stretch(EarlierStep), layout.earlier)

SectionText(layout) ==
    Opening(layout) \o layout.heading
      \o Times(Stretch(layout.step), layout.entries)

\* The offsets of the DOIs of the earlier list and of the list, as the
\* layout places them.
EarlierDois(layout) ==
    {Len("REFERENCES\n") + EarlierStep * j : j \in 0..(layout.earlier - 1)}

HeadingOffset(layout) ==
    IF layout.earlier = 0 THEN Len("Body text. ")
    ELSE Len("REFERENCES\n") + EarlierStep * layout.earlier

EntryDois(layout) ==
    {HeadingOffset(layout) + Len(layout.heading) + layout.step * j :
        j \in 0..(layout.entries - 1)}

LayoutDois(layout) == EarlierDois(layout) \cup EntryDois(layout)

\* The positions asked about: the start of the text, each DOI, and the end.
SectionPositions(layout) ==
    {0, HeadingOffset(layout) + Len(layout.heading)
          + layout.step * layout.entries}
      \cup LayoutDois(layout)

InitSection ==
    /\ text = ""
    /\ op = "none"
    /\ arg = <<>>
    /\ out = <<>>

\* in_refs = is_in_reference_section(text, position)
CallIsInReferenceSection(layout, position) ==
    /\ op = "none"
    /\ op' = "is_in_reference_section"
    /\ text' = SectionText(layout)
    /\ arg' = [layout |-> layout, position |-> position]
    /\ out' = IsInReferenceSection(text', position)

NextSection ==
    \E layout \in SectionLayouts :
        \E position \in SectionPositions(layout) :
            CallIsInReferenceSection(layout, position)

SpecSection == InitSection /\ [][NextSection]_vars

SectionCall == op = "is_in_reference_section"

\* The occurrences of the heading keywords in the text of a layout: the
\* keyword, its start and its end.  References and Bibliography are
\* keywords where they end their line, in any letter case.
KeywordOccurrences(layout) ==
    (IF layout.earlier = 0 THEN {}
     ELSE {<<"references", 0, Len("REFERENCES\n")>>})
    \cup (CASE layout.heading = "References\n" ->
                 {<<"references", HeadingOffset(layout),
                    HeadingOffset(layout) + Len("References\n")>>}
            [] layout.heading = "Works Cited: " ->
                 {<<"works cited", HeadingOffset(layout),
                    HeadingOffset(layout) + Len("Works Cited")>>}
            [] OTHER -> {})

\* The DOI prefixes that lie wholly within the offsets from and to.
DoisWithin(layout, from, to) ==
    {d \in LayoutDois(layout) : from <= d /\ d + Len("10.1000/") <= to}

\* (a) a keyword occurs within the 5000 characters before p, and more than
\* 3 DOI prefixes lie between its last occurrence there and p.
AfterHeading(layout, p) ==
    \E keyword \in {"references", "works cited"} :
        \E seen \in {{occ \in KeywordOccurrences(layout) :
                        /\ occ[1] = keyword
                        /\ occ[2] >= Max(0, p - 5000)
                        /\ occ[3] <= p}} :
            /\ seen # {}
            /\ \E last \in seen :
                  /\ \A occ \in seen : occ[2] <= last[2]
                  /\ Cardinality(DoisWithin(layout, last[2], p)) > 3

\* (b) the window from p - 200 to p + 200 holds more than 2 DOI prefixes.
AmongDois(layout, p) ==
    Cardinality(DoisWithin(layout, Max(0, p - 200),
                           Min(Len(text), p + 200))) > 2

C20_WitnessFar ==
    /\ SectionCall
    /\ out = FALSE
    /\ arg.layout.heading = "References\n"
    /\ Cardinality(DoisWithin(arg.layout, HeadingOffset(arg.layout),
                              arg.position)) > 3

\* True by the window alone: no heading keyword in the text.
C20_WitnessWindow ==
    /\ SectionCall
    /\ out = TRUE
    /\ KeywordOccurrences(arg.layout) = {}

-----------------------------------------------------------------------------
(* classify_usage.find_citations_programmatically                          *)

\* re.finditer of a pattern that opens with the lookbehind (?<=[...]): a
\* match starts only behind one of the characters of behind.
FindIterBehind(s, behind, re) ==
    FindIterFrom(s, re,
                 {q \in 1..Len(s) :
                     At(s, q - 1) \in behind /\ M(s, re, q, NoCaps) # <<>>},
                 0)

ListChars == Set(Digits \cup {","} \cup Spaces)

\* [50], (50), [49,50,51], (49,50,51)
search_patterns(ref_num) ==
    <<Cat(<<Chr("["), Lit(ref_num), Chr("]")>>),
      Cat(<<Chr("("), Lit(ref_num), Chr(")")>>),
      Cat(<<Chr("["), Star(ListChars), WordB, Lit(ref_num), WordB,
            Star(ListChars), Chr("]")>>),
      Cat(<<Chr("("), Star(ListChars), WordB, Lit(ref_num), WordB,
            Star(ListChars), Chr(")")>>)>>

\* The characters of the lookbehind (?<=[)\]a-zA-Z]).
superscript_behind == Letters \cup {")", "]"}

\* What follows the lookbehind: \s+50\s+[.,], \s+50\s+[A-Z], \s+50(?=\s|$)
superscript_patterns(ref_num) ==
    <<Cat(<<Plus(Space), Lit(ref_num), Plus(Space), Set({".", ","})>>),
      Cat(<<Plus(Space), Lit(ref_num), Plus(Space), Set(Uppers)>>),
      Cat(<<Plus(Space), Lit(ref_num), NotAhead(NotSet(Spaces))>>)>>

\* \[(\d+)-(\d+)\] and \((\d+)-(\d+)\)
bracket_range_pattern ==
    Cat(<<Chr("["), Grp(1, Plus(Digit)), Chr("-"), Grp(2, Plus(Digit)), Chr("]")>>)
paren_range_pattern ==
    Cat(<<Chr("("), Grp(1, Plus(Digit)), Chr("-"), Grp(2, Plus(Digit)), Chr(")")>>)

\* (?:figure|table|fig\.|tab\.)\s*50 under re.I
figure_pattern(ref_num) ==
    Cat(<<Alt(<<LitI("figure"), LitI("table"), LitI("fig."), LitI("tab.")>>),
          Star(Space), Lit(ref_num)>>)

\* (match.start(), match.end(), match.group(0))
MatchTuple(s, m) ==
    [start |-> m.start, end |-> m.end, matched_text |-> Slice(s, m.start, m.end)]

\* The loop over the matches of a range pattern: those that hold ref_num.
RangeMatches(body_text, ref_num, pattern) ==
    Bind(FindIter(body_text, pattern), LAMBDA ms :
        {MatchTuple(body_text, ms[i]) :
            i \in {j \in 1..Len(ms) :
                     /\ ToInt(Group(body_text, ms[j], 1)) <= ToInt(ref_num)
                     /\ ToInt(ref_num) <= ToInt(Group(body_text, ms[j], 2))}})

\* The matches of one explicit pattern that are not skipped for a figure
\* or table with the number within 30 characters.
KeptMatches(body_text, ref_num, ms) ==
    {MatchTuple(body_text, ms[i]) :
        i \in {j \in 1..Len(ms) :
                 ~Search(Slice(body_text, Max(0, ms[j].start - 30),
                               ms[j].end + 30),
                         figure_pattern(ref_num))}}

\* The loop over search_patterns, the superscript patterns included.
ExplicitMatches(body_text, ref_num) ==
    UNION {KeptMatches(body_text, ref_num,
                       FindIter(body_text, search_patterns(ref_num)[k])) :
              k \in 1..4}
      \cup UNION {KeptMatches(body_text, ref_num,
                              FindIterBehind(body_text, superscript_behind,
                                             superscript_patterns(ref_num)[k])) :
                     k \in 1..3}

\* (Smith et al., 2024), Smith et al. (2024), (Smith and Jones, 2024),
\* Smith and Jones (2024), (Smith, 2024), Smith (2024)
author_patterns(first_author, year) ==
    <<Cat(<<Chr("("), LitI(first_author), Plus(Space), LitI("et"), Plus(Space),
            LitI("al"), Chr("."), Opt(Chr(",")), Star(Space), Lit(year), Chr(")")>>),
      Cat(<<LitI(first_author), Plus(Space), LitI("et"), Plus(Space),
            LitI("al"), Chr("."), Star(Space), Chr("("), Lit(year), Chr(")")>>),
      Cat(<<Chr("("), LitI(first_author), Plus(Space), LitI("and"), Plus(Space),
            Plus(Set(WordChars)), Opt(Chr(",")), Star(Space), Lit(year), Chr(")")>>),
      Cat(<<LitI(first_author), Plus(Space), LitI("and"), Plus(Space),
            Plus(Set(WordChars)), Star(Space), Chr("("), Lit(year), Chr(")")>>),
      Cat(<<Chr("("), LitI(first_author), Opt(Chr(",")), Star(Space), Lit(year),
            Chr(")")>>),
      Cat(<<LitI(first_author), Star(Space), Chr("("), Lit(year), Chr(")")>>)>>

AuthorYearMatches(body_text, first_author, year) ==
    UNION {Bind(FindIter(body_text, author_patterns(first_author, year)[k]),
                LAMBDA ms : {MatchTuple(body_text, ms[i]) : i \in 1..Len(ms)}) :
              k \in 1..6}

\* set(matches) before the sort.
MatchesOfStyle(body_text, patterns) ==
    IF patterns.citation_style \in {"numbered", "superscript"}
    THEN IF patterns.reference_number \in {None, 0} THEN {}
         ELSE RangeMatches(body_text, ToStr(patterns.reference_number),
                           bracket_range_pattern)
                \cup RangeMatches(body_text, ToStr(patterns.reference_number),
                                  paren_range_pattern)
                \cup ExplicitMatches(body_text, ToStr(patterns.reference_number))
    ELSE IF patterns.citation_style = "author-year"
    THEN IF patterns.first_author_lastname = "" \/ patterns.year \in {None, 0}
         THEN {}
         ELSE AuthorYearMatches(body_text, patterns.first_author_lastname,
                                ToStr(patterns.year))
    ELSE {}

\* sorted(set(matches), key=lambda x: x[0]): the lists in which the
\* matches stand by start; the place of matches with one start among each
\* other follows the iteration of the set, which is not determined.
RECURSIVE SortedByStart(_)
SortedByStart(matches) ==
    IF matches = {} THEN {<<>>}
    ELSE UNION {{<<m>> \o rest : rest \in SortedByStart(matches \ {m})} :
                   m \in {x \in matches : \A y \in matches : x.start <= y.start}}

\* find_citations_programmatically(text, patterns, bib_start): the lists
\* it may return.
FindCitationsProgrammatically(s, patterns, bib_start) ==
    SortedByStart(MatchesOfStyle(Slice(s, 0, bib_start), patterns))

-----------------------------------------------------------------------------
(* Calls of find_citations_programmatically on a paper whose body is put   *)
(* together from citations, a figure and plain words, with the             *)
(* bibliography start that find_bibliography_start gives.                  *)

MaxCitingPieces == 2

CitingPieces ==
    {"Figure 5 ", "[5]", "(5)", "[4, 5]", "[3-7]", "data 5 .", "Doe (2019)",
     "as shown in earlier recordings of the cortex "}

BibliographyTail == " References [5] Doe J. Title. 2019."

CitingTexts == {body \o BibliographyTail : body \in Joined(CitingPieces, MaxCitingPieces)}

\* What the language model said about the way the paper cites.
CitingPatterns ==
    [citation_style : {"numbered", "superscript"}, reference_number : {5, None},
     first_author_lastname : {""}, year : {None}]
    \cup [citation_style : {"author-year", "unknown"}, reference_number : {None},
          first_author_lastname : {"Doe"}, year : {2019}]

InitProgrammatic ==
    /\ text \in CitingTexts
    /\ op = "none"
    /\ arg = <<>>
    /\ out = <<>>

\* bib_start = find_bibliography_start(text)
\* matches = find_citations_programmatically(text, patterns, bib_start)
CallFindCitationsProgrammatically(patterns) ==
    /\ op = "none"
    /\ op' = "find_citations_programmatically"
    /\ arg' = [patterns |-> patterns, bib_start |-> FindBibliographyStart(text)]
    /\ out' \in FindCitationsProgrammatically(text, patterns,
                                              FindBibliographyStart(text))
    /\ UNCHANGED text

NextProgrammatic ==
    \E patterns \in CitingPatterns : CallFindCitationsProgrammatically(patterns)

SpecProgrammatic == InitProgrammatic /\ [][NextProgrammatic]_vars

ProgrammaticCall == op = "find_citations_programmatically"

FigureWords == {"figure", "table", "fig.", "tab."}

\* One of the words figure, table, fig. and tab., in any letter case, then
\* whitespace or none, then the number, is written in context.
FigureNear(context, ref_num) ==
    \E w \in FigureWords :
        \E q \in 0..Len(context) :
            /\ LowerStr(Slice(context, q, q + Len(w))) = w
            /\ \E e \in (q + Len(w))..Len(context) :
                  /\ \A j \in (q + Len(w))..(e - 1) : At(context, j) \in Spaces
                  /\ Occurs(context, ref_num, e)

\* C17: for the numbered and the superscript style and reference number N,
\* no match that find_citations_programmatically returns, be it bracketed,
\* parenthetical, a list, a range or a bare number, has figure, table,
\* fig. or tab. followed by optional whitespace and N in the context from
\* 30 characters before its start to 30 characters after its end.
C17_FigureExclusionGlobal ==
    (/\ ProgrammaticCall
     /\ arg.patterns.citation_style \in {"numbered", "superscript"}
     /\ arg.patterns.reference_number # None)
    => \A i \in 1..Len(out) :
          ~FigureNear(Slice(Slice(text, 0, arg.bib_start),
                            Max(0, out[i].start - 30), out[i].end + 30),
                      ToStr(arg.patterns.reference_number))

\* The same for the matches that are not ranges.
C17_ExplicitOnly ==
    (/\ ProgrammaticCall
     /\ arg.patterns.citation_style \in {"numbered", "superscript"}
     /\ arg.patterns.reference_number # None)
    => \A i \in 1..Len(out) :
          \/ Contains(out[i].matched_text, "-")
          \/ ~FigureNear(Slice(Slice(text, 0, arg.bib_start),
                               Max(0, out[i].start - 30), out[i].end + 30),
                         ToStr(arg.patterns.reference_number))

-----------------------------------------------------------------------------
(* Calls of find_reference_number_for_doi on a paper with a reference list *)
(* of numbered or plain entries, the last of which is the cited paper.     *)

MaxBefore == 4

\* What follows the number of an entry; none for a list without numbers.
NumberStyles == {"", ". ", ") ", " ", ": "}

\* The characters between the authors of the cited entry and its DOI.
EntryGaps == {5, 600}

ResolvedDoi == "10.1000/xyz"

ResolutionLayouts ==
    [before : 0..MaxBefore, style : NumberStyles, numbered : BOOLEAN,
     gap : EntryGaps, mention : BOOLEAN]

BodyOf(layout) ==
    (IF layout.mention THEN "We reuse " \o ResolvedDoi \o " here."
     ELSE "We reuse data.") \o "\nReference list"

\* The start of entry i: a new line and, in a numbered entry, the number
\* and what follows it.
EntryHead(i, style) == "\n" \o (IF style = "" THEN "" ELSE ToStr(i) \o style)

OtherEntry(i, style) ==
    EntryHead(i, style) \o "Roe A. doi:10.1000/ab" \o ToStr(i)

RECURSIVE OtherEntries(_, _)
OtherEntries(n, style) ==
    IF n = 0 THEN "" ELSE OtherEntries(n - 1, style) \o OtherEntry(n, style)

\* The entry of the cited paper, numbered or on a line without number.
CitedEntry(layout) ==
    EntryHead(layout.before + 1, IF layout.numbered THEN layout.style ELSE "")
      \o "Doe J. "
      \o Slice(Filler250 \o Filler250 \o Filler250, 0, layout.gap)
      \o " doi:" \o ResolvedDoi

ResolutionText(layout) ==
    BodyOf(layout) \o OtherEntries(layout.before, layout.style)
      \o CitedEntry(layout)

InitResolution ==
    /\ text = ""
    /\ op = "none"
    /\ arg = <<>>
    /\ out = <<>>

\* ref_number = find_reference_number_for_doi(text, doi)
ResolveReferenceNumber(layout, doi) ==
    /\ op = "none"
    /\ op' = "find_reference_number_for_doi"
    /\ text' = ResolutionText(layout)
    /\ arg' = [layout |-> layout, doi |-> doi]
    /\ out' = FindReferenceNumberForDoi(text', doi)

NextResolution ==
    \E layout \in ResolutionLayouts, doi \in TargetDois :
        ResolveReferenceNumber(layout, doi)

SpecResolution == InitResolution /\ [][NextResolution]_vars

ResolutionCall ==
    op = "find_reference_number_for_doi" /\ "layout" \in DOMAIN arg

\* Where the layout places things: the first occurrence of the DOI, the
\* line of entry i, and the DOIs of the text in their order.
FirstOccurrence(layout) ==
    IF layout.mention THEN Len("We reuse ")
    ELSE Len(ResolutionText(layout)) - Len(ResolvedDoi)

EntryLine(layout, i) ==
    Len(BodyOf(layout)) + (i - 1) * Len(OtherEntry(1, layout.style))

\* The numbered entries whose number is followed by a full stop, whitespace
\* or a closing parenthesis.
CandidateEntries(layout) ==
    IF layout.style \notin {". ", ") ", " "} THEN {}
    ELSE (1..layout.before)
           \cup (IF layout.numbered THEN {layout.before + 1} ELSE {})

\* Those whose number stands in the 500 characters before the first
\* occurrence of the DOI.
CandidatesInReach(layout) ==
    {i \in CandidateEntries(layout) :
        /\ EntryLine(layout, i) + 1 >= Max(0, FirstOccurrence(layout) - 500)
        /\ EntryLine(layout, i) + 3 <= FirstOccurrence(layout)}

\* The DOIs of the text in their order: offset, and whether it is the DOI
\* asked for.
DoisInOrder(layout) ==
    (IF layout.mention THEN <<[at |-> Len("We reuse "), cited |-> TRUE]>>
     ELSE <<>>)
    \o [i \in 1..layout.before |->
           [at |-> EntryLine(layout, i) + Len(OtherEntry(i, layout.style))
                     - Len("10.1000/ab1"),
            cited |-> FALSE]]
    \o <<[at |-> Len(ResolutionText(layout)) - Len(ResolvedDoi), cited |-> TRUE]>>

\* 1 + the index, among the DOIs from the density boundary on, of the
\* first that holds the DOI asked for; None without a boundary.
CountedFromBoundary(layout, boundary) ==
    IF boundary >= Len(ResolutionText(layout)) THEN None
    ELSE Bind(SelectSeq(DoisInOrder(layout), LAMBDA d : d.at >= boundary),
              LAMBDA dois :
                  CHOOSE n \in 1..Len(dois) :
                      dois[n].cited /\ \A j \in 1..(n - 1) : ~dois[j].cited)

\* C21: find_reference_number_for_doi returns the number of the numbered
\* line closest to the first occurrence of the DOI, among the line-leading
\* numbers followed by a full stop, whitespace or a closing parenthesis in
\* the 500 characters before it; only when there is none it returns 1 + the
\* index of the first DOI, counted from the density boundary on, that holds
\* the DOI asked for.
C21_ResolutionOrder ==
    ResolutionCall =>
        \E reach \in {CandidatesInReach(arg.layout)} :
            out = IF reach # {}
                  THEN CHOOSE i \in reach : \A j \in reach : j <= i
                  ELSE CountedFromBoundary(arg.layout,
                                           FindReferenceSectionStart(text))

\* Several numbered lines before the DOI and a density boundary whose count
\* gives another number: the closest numbered line is returned.
C21_Witness ==
    /\ ResolutionCall
    /\ Cardinality(CandidatesInReach(arg.layout)) >= 2
    /\ FindReferenceSectionStart(text) < Len(text)
    /\ CountedFromBoundary(arg.layout, FindReferenceSectionStart(text)) # out
    /\ out = arg.layout.before

\* No number in reach although the entries are numbered: the count is
\* returned.
C21_WitnessCount ==
    /\ ResolutionCall
    /\ CandidateEntries(arg.layout) # {}
    /\ CandidatesInReach(arg.layout) = {}
    /\ out # None

-----------------------------------------------------------------------------
(* Calls of find_title_mentions for the title of the cited paper on a text *)
(* put together from titles as they are written in citing papers.          *)

MaxTitlePieces == 2

Titles ==
    {"Short title",
     "A survey of the field",
     "Cortical population dynamics",
     "Dynamics of cortical populations",
     "The Role of the Hippocampus in Memory and Learning",
     "Neural population dynamics during reaching in motor cortex"}

TitlePieces ==
    Titles \cup
    {"CORTICAL POPULATION DYNAMICS", "cortical  population dynamics",
     "dynamics cortical populations", "role hippocampus memory learning",
     "Neural Population Dynamics During Reaching", " and "}

TitleTexts == Joined(TitlePieces, MaxTitlePieces)

InitTitle ==
    /\ text \in TitleTexts
    /\ op = "none"
    /\ arg = <<>>
    /\ out = <<>>

\* positions = find_title_mentions(text, title)
CallFindTitleMentions(title) ==
    /\ op = "none"
    /\ op' = "find_title_mentions"
    /\ arg' = [title |-> title]
    /\ out' = FindTitleMentions(text, title)
    /\ UNCHANGED text

NextTitle == \E title \in Titles : CallFindTitleMentions(title)

SpecTitle == InitTitle /\ [][NextTitle]_vars

TitleCall == op = "find_title_mentions"

\* The first five words of a title that are not stop words, in small
\* letters and joined by single blanks; nothing for a title of fewer than
\* 20 characters or fewer than 3 such words.
PhraseOf(title) ==
    CASE title = "Cortical population dynamics" -> "cortical population dynamics"
      [] title = "Dynamics of cortical populations" -> "dynamics cortical populations"
      [] title = "The Role of the Hippocampus in Memory and Learning" ->
             "role hippocampus memory learning"
      [] title = "Neural population dynamics during reaching in motor cortex" ->
             "neural population dynamics during reaching"
      [] OTHER -> ""

C23_TitleFound ==
    (/\ TitleCall
     /\ PhraseOf(arg.title) # ""
     /\ Contains(text, arg.title))
    => out # <<>>

-----------------------------------------------------------------------------
(* call_openrouter_api: the retry loop, one request per step.  text is the
   prompt, arg holds the parameters and the local variables of the call, out
   its state: running, returned with a value, or raised with an error.
   Values carry their Python type.  *)

MaxRetries == 3

Prompts == {"Classify this paper."}

NoneValue == [type |-> "NoneType"]

StrValue(s) == [type |-> "str", value |-> s]

DictValue(d) == [type |-> "dict", value |-> d]

UnknownResult(reasoning) == DictValue([classification |-> "UNKNOWN", confidence |-> 1, reasoning |-> reasoning])

\* str.upper() and str.replace(a, b) for a single character a.
RECURSIVE UpperStr(_)
UpperStr(s) ==
    IF Len(s) <= 1 THEN UpperCh(s)
    ELSE UpperStr(Slice(s, 0, Len(s) \div 2))
         \o UpperStr(Slice(s, Len(s) \div 2, Len(s)))

RECURSIVE ReplaceCh(_, _, _)
ReplaceCh(s, a, b) ==
    IF Len(s) <= 1 THEN (IF s = a THEN b ELSE s)
    ELSE ReplaceCh(Slice(s, 0, Len(s) \div 2), a, b)
         \o ReplaceCh(Slice(s, Len(s) \div 2, Len(s)), a, b)

\* The contents a model answers with; those that are a JSON object with a
\* classification begin with JsonHead and end with JsonTail.
JsonHead == "{\"classification\": \""

JsonTail == "\"}"

JsonContents == {JsonHead \o c \o JsonTail : c \in {"PRIMARY", "REUSE", "mention", "Neither", "not sure"}}

Contents == JsonContents \cup {"", "PRIMARY", "MENTION only", "The paper reuses the data."}

\* _validate_classification
ValidateClassification(classification, valid_classifications) ==
    LET upper == ReplaceCh(UpperStr(classification), " ", "_")
    IN  [classification |-> upper,
         parse_error |-> valid_classifications # {} /\ upper \notin valid_classifications]

\* parse_json_response: the dicts it can return (strategy 6 takes the first
\* valid classification that a set iteration meets in the text); the fields
\* confidence and reasoning are left out.
parse_json_response(response_text, valid_classifications, default_classification) ==
    IF response_text = ""
    THEN {[classification |-> default_classification, parse_error |-> TRUE]}
    ELSE IF response_text \in JsonContents
    THEN {ValidateClassification(Slice(response_text, Len(JsonHead), Len(response_text) - Len(JsonTail)), valid_classifications)}
    ELSE LET named == {cls \in valid_classifications : Contains(UpperStr(response_text), cls)}
         IN  IF named # {}
             THEN {[classification |-> cls, parse_error |-> TRUE] : cls \in named}
             ELSE {[classification |-> default_classification, parse_error |-> TRUE]}

\* The bodies of the responses with a status that raise_for_status accepts.
Responses == {[choices |-> <<>>]} \cup {[choices |-> <<[finish_reason |-> f, content |-> c]>>] : f \in {"stop", "length"}, c \in Contents}

\* The value of a call whose request was answered by raw_response, without
\* the wrapping of return_full_interaction.
ExtractContent(raw_response, return_raw) ==
    LET choices == raw_response.choices
    IN  IF choices = <<>>
        THEN IF return_raw THEN NoneValue ELSE UnknownResult("No choices in response")
        ELSE IF choices[1].finish_reason = "length"
        THEN IF return_raw THEN StrValue(choices[1].content) ELSE UnknownResult("Response ended prematurely")
        ELSE IF return_raw
        THEN StrValue(choices[1].content)
        ELSE IF Len(Strip(choices[1].content)) < 10
        THEN UnknownResult("Empty or truncated response")
        ELSE DictValue(CHOOSE parsed \in parse_json_response(choices[1].content, {}, "UNKNOWN") : TRUE)

ResultOf(prompt, raw_response, return_raw, return_full_interaction) ==
    LET parsed == ExtractContent(raw_response, return_raw)
    IN  IF return_raw \/ ~return_full_interaction
        THEN parsed
        ELSE DictValue([result |-> parsed, prompt |-> prompt, raw_response |-> raw_response])

Running == [state |-> "running"]

Returned(value) == [state |-> "returned", value |-> value]

Raised(error) == [state |-> "raised", error |-> error]

InitApi ==
    /\ text \in Prompts
    /\ op = "none"
    /\ arg = <<>>
    /\ out = <<>>

ApiRunning == op = "call_openrouter_api" /\ out = Running

\* The end of the loop: for ... else when no attempt is left.
EnterAttempt(locals) ==
    IF locals.attempt < locals.max_retries
    THEN /\ arg' = locals
         /\ out' = Running
    ELSE /\ arg' = locals
         /\ out' = IF locals.return_raw THEN Returned(NoneValue)
                   ELSE IF locals.last_error # "" THEN Raised(locals.last_error)
                   ELSE Returned(NoneValue)

CallOpenrouterApi(max_retries, return_raw, return_full_interaction) ==
    /\ op # "call_openrouter_api" \/ out # Running
    /\ op' = "call_openrouter_api"
    /\ EnterAttempt([max_retries |-> max_retries, return_raw |-> return_raw, return_full_interaction |-> return_full_interaction, attempt |-> 0, last_error |-> ""])
    /\ UNCHANGED text

\* The request is answered with a status that is neither 429 nor an error.
AttemptSucceeds(raw_response) ==
    /\ ApiRunning
    /\ out' = Returned(ResultOf(text, raw_response, arg.return_raw, arg.return_full_interaction))
    /\ UNCHANGED <<text, op, arg>>

\* HTTP 429: wait and go on with the next attempt.
AttemptRateLimited ==
    /\ ApiRunning
    /\ EnterAttempt([arg EXCEPT !.attempt = @ + 1])
    /\ UNCHANGED <<text, op>>

\* requests.exceptions.Timeout or ConnectionError
AttemptTimesOut(e) ==
    /\ ApiRunning
    /\ EnterAttempt([arg EXCEPT !.attempt = @ + 1, !.last_error = e])
    /\ UNCHANGED <<text, op>>

\* Any other requests.RequestException, raise_for_status included.
AttemptFails ==
    /\ ApiRunning
    /\ out' = IF arg.return_raw THEN Returned(NoneValue) ELSE Raised("RequestException")
    /\ UNCHANGED <<text, op, arg>>

NextApi ==
    \/ \E max_retries \in 1..MaxRetries, return_raw \in BOOLEAN, return_full_interaction \in BOOLEAN : CallOpenrouterApi(max_retries, return_raw, return_full_interaction)
    \/ \E raw_response \in Responses : AttemptSucceeds(raw_response)
    \/ AttemptRateLimited
    \/ \E e \in {"Timeout", "ConnectionError"} : AttemptTimesOut(e)
    \/ AttemptFails

SpecApi == InitApi /\ [][NextApi]_vars

ApiDone == op = "call_openrouter_api" /\ out # Running

\* C25: when return_raw is false a call of call_openrouter_api never returns
\* None: it returns a dict (with return_full_interaction one that holds
\* result, prompt and raw_response) or raises the request error, whatever
\* the outcomes of its attempts were.
C25_NeverNone ==
    (ApiDone /\ ~arg.return_raw) =>
        \/ out.state = "raised"
        \/ /\ out.state = "returned"
           /\ out.value.type = "dict"
           /\ arg.return_full_interaction => DOMAIN out.value.value = {"result", "prompt", "raw_response"}

\* The same for the calls that made a request which did not end in HTTP 429
\* on every attempt.
C25_NoneOnlyWhenRateLimited ==
    (ApiDone /\ ~arg.return_raw /\ out.state = "returned" /\ out.value.type # "dict") =>
        /\ out.value = NoneValue
        /\ arg.attempt = arg.max_retries
        /\ arg.last_error = ""

-----------------------------------------------------------------------------
(* classify_single_paper and the classification cache.  arg holds the
   parameters of the last call; out holds its result together with the files
   of the classification cache and of the paper cache (by file name), the
   number of calls, of LLM calls and of citation extractions made so far, and
   the pairs for which a call with use_cache has completed without a
   paper-cache read error since the cache was last cleared.  A file that does not exist is
   NoneValue.  Of a result the fields the cache protocol turns on are kept;
   an absent error is "", an absent cached_at is None.  *)

MaxCalls == 2

MinPaperText == 200

VALID_CLASSIFICATIONS == {"REUSE", "MENTION", "NEITHER"}

CitingDois == {"10.1/a", "10.1_a"}

CitedDois == {"10.2/c"}

DandisetNames == {"", "Calcium imaging"}

\* A paper cache file: unreadable, or JSON with a text of some length.
PaperFiles == {[readable |-> FALSE, length |-> 0]} \cup {[readable |-> TRUE, length |-> n] : n \in {MinPaperText - 1, MinPaperText}}

\* What archive_finder.get_paper_text leaves behind.
FetchedFiles == {NoneValue, [readable |-> TRUE, length |-> MinPaperText]}

\* What call_openrouter_api with return_raw answers: None or the content.
LlmAnswers == {NoneValue} \cup {StrValue(c) : c \in {JsonHead \o "REUSE" \o JsonTail, JsonHead \o "not sure" \o JsonTail, "MENTION only"}}

get_cache_path(citing_doi, cited_doi) == ReplaceCh(citing_doi, "/", "_") \o "__" \o ReplaceCh(cited_doi, "/", "_") \o ".json"

PaperCachePath(citing_doi) == ReplaceCh(citing_doi, "/", "_") \o ".json"

CachePaths == {get_cache_path(a, b) : a \in CitingDois, b \in CitedDois}

PaperPaths == {PaperCachePath(a) : a \in CitingDois}

\* get_cached_classification without the look into the cache.
GetCachedClassificationNever(classification_cache, citing_doi, cited_doi) == NoneValue

get_cached_classification(classification_cache, citing_doi, cited_doi) == classification_cache[get_cache_path(citing_doi, cited_doi)]

\* cache_classification: the record as written (and as left in result).
Stamped(result, now) == [result EXCEPT !.cached_at = now]

\* The record a call answers from the cache.
Served(cached, dandiset_name) ==
    [cached EXCEPT !.from_cache = TRUE,
                   !.dandiset_name = IF dandiset_name # "" /\ @ = "" THEN dandiset_name ELSE @]

InitCache ==
    /\ text = ""
    /\ op = "none"
    /\ arg = <<>>
    /\ out = [result |-> NoneValue,
              classification_cache |-> [path \in CachePaths |-> NoneValue],
              paper_cache |-> [path \in PaperPaths |-> NoneValue],
              calls |-> 0, llm_calls |-> 0, extractions |-> 0, completed |-> {}]

\* The end of a call that did not answer from the cache: the result is
\* written to the cache when write holds.
Finish(state, citing_doi, cited_doi, result, write, use_cache) ==
    LET stored == IF write /\ use_cache THEN Stamped(result, state.calls) ELSE result
    IN  [state EXCEPT !.result = stored,
                      !.classification_cache = IF write /\ use_cache THEN [@ EXCEPT ![get_cache_path(citing_doi, cited_doi)] = stored] ELSE @,
                      !.completed = IF write /\ use_cache THEN @ \cup {<<citing_doi, cited_doi>>} ELSE @]

\* fetched: the paper cache file archive_finder.get_paper_text leaves when
\* there was none (NoneValue without an archive_finder or when it fails);
\* answer, classification: what the LLM call and the parsing of its answer
\* give when they are reached.
ClassifySinglePaper(citing_doi, cited_doi, dandiset_name, use_cache, fetched, answer) ==
    /\ out.calls < MaxCalls
    /\ op' = "classify_single_paper"
    /\ arg' = [citing_doi |-> citing_doi, cited_doi |-> cited_doi, dandiset_name |-> dandiset_name, use_cache |-> use_cache]
    /\ UNCHANGED text
    /\ LET cached == IF use_cache THEN get_cached_classification(out.classification_cache, citing_doi, cited_doi) ELSE NoneValue
           called == [out EXCEPT !.calls = @ + 1]
           result == [citing_doi |-> citing_doi, cited_doi |-> cited_doi, dandiset_name |-> dandiset_name, from_cache |-> FALSE, classification |-> "", parse_error |-> FALSE, error |-> "", cached_at |-> None]
           neither == [result EXCEPT !.classification = "NEITHER"]
           path == PaperCachePath(citing_doi)
       IN  IF cached # NoneValue
           THEN out' = [called EXCEPT !.result = Served(cached, dandiset_name), !.completed = @ \cup {<<citing_doi, cited_doi>>}]
           ELSE LET file == IF out.paper_cache[path] = NoneValue THEN fetched ELSE out.paper_cache[path]
                    looked == [called EXCEPT !.paper_cache[path] = file]
                IN  IF file = NoneValue
                    THEN out' = Finish(looked, citing_doi, cited_doi, [neither EXCEPT !.error = "no_paper_text"], TRUE, use_cache)
                    ELSE IF ~file.readable
                    THEN out' = Finish(looked, citing_doi, cited_doi, [neither EXCEPT !.error = "cache_read_error"], FALSE, use_cache)
                    ELSE IF file.length < MinPaperText
                    THEN out' = Finish(looked, citing_doi, cited_doi, [neither EXCEPT !.error = "insufficient_text"], TRUE, use_cache)
                    ELSE \E classification \in parse_json_response(IF answer = NoneValue THEN "" ELSE answer.value, VALID_CLASSIFICATIONS, "NEITHER") :
                            out' = Finish([looked EXCEPT !.llm_calls = @ + 1, !.extractions = @ + 1], citing_doi, cited_doi,
                                          [result EXCEPT !.classification = classification.classification, !.parse_error = classification.parse_error],
                                          TRUE, use_cache)

\* --clear-cache: the classification cache directory is removed.
ClearCache ==
    /\ op # "none"
    /\ op' = "clear_cache"
    /\ out' = [out EXCEPT !.classification_cache = [path \in CachePaths |-> NoneValue], !.completed = {}]
    /\ UNCHANGED <<text, arg>>

\* The paper cache is filled by the tools that fetch the papers.
PaperCacheChanges(path, file) ==
    /\ op # "none"
    /\ out.paper_cache[path] # file
    /\ op' = "paper_cache_changes"
    /\ out' = [out EXCEPT !.paper_cache[path] = file]
    /\ UNCHANGED <<text, arg>>

NextCache ==
    \/ \E citing_doi \in CitingDois, cited_doi \in CitedDois, dandiset_name \in DandisetNames, use_cache \in BOOLEAN, fetched \in FetchedFiles, answer \in LlmAnswers : ClassifySinglePaper(citing_doi, cited_doi, dandiset_name, use_cache, fetched, answer)
    \/ ClearCache
    \/ \E path \in PaperPaths, file \in PaperFiles : PaperCacheChanges(path, file)

SpecCache == InitCache /\ [][NextCache]_vars

\* The step is a call of classify_single_paper for the pair with use_cache.
CachedCallOf(pair) ==
    /\ out'.calls = out.calls + 1
    /\ op' = "classify_single_paper"
    /\ arg'.use_cache
    /\ <<arg'.citing_doi, arg'.cited_doi>> = pair

C26_Completed ==
    [][/\ \A pair \in CitingDois \X CitedDois :
             (CachedCallOf(pair) /\ out'.result.error # "cache_read_error") =>
                 /\ out'.classification_cache[get_cache_path(pair[1], pair[2])] # NoneValue
                 /\ pair \in out'.completed
       /\ (op' # "clear_cache") => out.completed \subseteq out'.completed]_vars

-----------------------------------------------------------------------------
(* Calls of extract_context on texts longer than the search regions: runs
   of filler, each followed by a sentence end, and a last run of filler.  *)

MaxSentences == 2

SentenceGaps == {0, 98, 150, 196}

TailGaps == {0, 150}

RECURSIVE GapRows(_)
GapRows(n) ==
    IF n = 0 THEN {<<>>}
    ELSE LET shorter == GapRows(n - 1)
         IN  shorter \cup {Append(r, g) : r \in shorter, g \in SentenceGaps}

WindowLayouts == [gaps : GapRows(MaxSentences), mark : {". ", "!\n"}, tail : TailGaps]

RECURSIVE Sentences(_, _, _)
Sentences(gaps, mark, k) ==
    IF k > Len(gaps) THEN ""
    ELSE Filler(gaps[k]) \o mark \o Sentences(gaps, mark, k + 1)

WindowText(layout) == Sentences(layout.gaps, layout.mark, 1) \o Filler(layout.tail)

RECURSIVE MarkOffset(_, _)
\* The offset of the mark that ends sentence k.
MarkOffset(layout, k) ==
    IF k = 0 THEN 0 - Len(layout.mark)
    ELSE MarkOffset(layout, k - 1) + Len(layout.mark) + layout.gaps[k]

WindowLength(layout) == MarkOffset(layout, Len(layout.gaps)) + Len(layout.mark) + layout.tail

WindowBudgets == {0, 1}

Reaches == {0, 1, SnapRegion - 2, SnapRegion - 1, SnapRegion}

\* Positions whose raw window begins or ends at the reaches named from a
\* mark, and the ends of the text.
WindowPositions(layout, budget) ==
    {0, WindowLength(layout)} \cup
    {q \in 0..WindowLength(layout) :
        \E k \in 1..Len(layout.gaps), d \in Reaches :
            \/ q = MarkOffset(layout, k) + Len(layout.mark) + d + budget
            \/ q = MarkOffset(layout, k) - d - budget}

InitWindow ==
    /\ text = ""
    /\ op = "none"
    /\ arg = <<>>
    /\ out = <<>>

\* ctx = extract_context(text, position, context_chars)
ExtractWindow(layout, position, context_chars) ==
    /\ op = "none"
    /\ op' = "extract_context"
    /\ text' = WindowText(layout)
    /\ arg' = [position |-> position, context_chars |-> context_chars, layout |-> layout]
    /\ out' = ExtractContext(WindowText(layout), position, context_chars)

NextWindow ==
    /\ op = "none"
    /\ \E layout \in WindowLayouts, context_chars \in WindowBudgets :
          \E position \in WindowPositions(layout, context_chars) :
              ExtractWindow(layout, position, context_chars)

SpecWindow == InitWindow /\ [][NextWindow]_vars

WindowCall == op = "extract_context" /\ "layout" \in DOMAIN arg

WindowRawStart == Max(0, arg.position - arg.context_chars)

WindowRawEnd == Min(WindowLength(arg.layout), arg.position + arg.context_chars)

\* C29: the window returned by extract_context contains the raw window from
\* max(0, pos - budget) to min(len(text), pos + budget) and goes beyond it by
\* at most 100 characters on each side, so end - start <= 2 * budget + 200;
\* snapping never shrinks the raw window.
C29_BoundedExpansion ==
    WindowCall =>
        /\ out.start <= WindowRawStart
        /\ WindowRawStart - out.start <= SnapRegion
        /\ out.end >= WindowRawEnd
        /\ out.end - WindowRawEnd <= SnapRegion
        /\ out.end - out.start <= 2 * arg.context_chars + 2 * SnapRegion

\* Both sides are moved as far as the search regions reach: the start by 98
\* characters, the end by 99.
C29_Witness ==
    /\ WindowCall
    /\ WindowRawStart - out.start = SnapRegion - 2
    /\ out.end - WindowRawEnd = SnapRegion - 1

\* A sentence end 150 characters after the raw end, out of reach, leaves the
\* end where it is.
C29_WitnessOutOfReach ==
    /\ WindowCall
    /\ arg.layout.gaps = <<0, 150>>
    /\ arg.position = Len(arg.layout.mark)
    /\ out.end = WindowRawEnd
    /\ out.end < Len(text)

-----------------------------------------------------------------------------
(* Calls of find_citation_contexts on papers whose only citation begins
   just below, at or just above a multiple of 100.  *)

\* The lengths of the filler before the sentence with the citation; the
\* parenthesis opens Len("Prior work ") characters further on.
LeadLengths == {87, 88, 89, 188}

CitationForms == {"(Doe et al., 2019)", "(Doe, 2019)"}

GroupingTexts ==
    {PaperWith(Filler(lead) \o "Prior work " \o form \o " established X.", "\n", "Title", "") :
        lead \in LeadLengths, form \in CitationForms}

InitGrouping ==
    /\ text \in GroupingTexts
    /\ op = "none"
    /\ arg = <<>>
    /\ out = <<>>

SpecGrouping == InitGrouping /\ [][NextCitations]_vars

\* C30: no two excerpts of the list returned by find_citation_contexts with
\* method author_year or title_mention have anchor offsets less than 100
\* characters apart, so one citation in the text never gives two of them.
C30_NearbyGrouped ==
    CitationsCall =>
        \A i, j \in 1..Len(out) :
            (/\ i < j
             /\ out[i].method \in {"author_year", "title_mention"}
             /\ out[j].method \in {"author_year", "title_mention"})
            => out[j].citation_position - out[i].citation_position >= 100

\* The same for the papers whose citation does not lie across a multiple of
\* 100.
C30_WithinOneBucket ==
    (CitationsCall /\ StrFind(text, "(Doe") % 100 # 99) =>
        \A i, j \in 1..Len(out) :
            (/\ i < j
             /\ out[i].method \in {"author_year", "title_mention"}
             /\ out[j].method \in {"author_year", "title_mention"})
            => out[j].citation_position - out[i].citation_position >= 100

====
